---- MODULE Spec2Model ----
(***************************************************************************)
(* Model of the MCP connection registry of backend/app/mcp/manager.py:     *)
(* MCPServerConnection (connect / disconnect / execute_tool /              *)
(* health_check) and MCPConnectionManager (add_server / remove_server /    *)
(* reconnect_server / execute_tool / list_all_tools / _health_check_loop), *)
(* together with the transports of backend/app/mcp/transports.py.          *)
(*                                                                         *)
(* The program runs on one asyncio event loop.  A coroutine runs without   *)
(* interruption until it awaits real I/O or a held lock.  The variable     *)
(* `running` names the task that is executing between two suspension       *)
(* points (0 when the event loop is free to resume any ready task), so the *)
(* statements between two awaits are never interleaved with other tasks.   *)
(***************************************************************************)
EXTENDS Integers, Sequences, FiniteSets, TLC

\* ------------------------------------------------------------------ bounds
MaxOps == 2            \* API calls started in one behaviour
MaxProbeFails == 1     \* failing health probes in one behaviour
MaxCalls == 2          \* tool calls carried by one LLM reply
MaxMessages == 3       \* MAX_MESSAGES_PER_CONVERSATION and the deque's maxlen, scaled
MaxAdds == 6           \* add_message calls in one behaviour

ServerIds == {1, 2}    \* caller-assigned server ids
ApiTasks == {1, 2}     \* concurrently outstanding API requests
HL == 3                \* the health-check loop task (_health_check_task)
TurnsFollowed == 1     \* a behaviour follows one turn, among the other requests
Tasks == ApiTasks \cup {HL}
Tools == {"t1"}
Catalogs == {{}, {"t1"}}   \* what a tool server may enumerate

\* connection objects: one per add_server call, and one of startup
Conns == 1..(MaxOps + 1)
\* transport objects: an API call builds at most one, and the loop builds
\* one per probe that raised (on its own, or after an API call's teardown);
\* a server configured at startup has had at most two
Transports == 1..(2 * MaxOps + MaxProbeFails + 2 * Cardinality(ServerIds))

\* ------------------------------------------------------------------ state
VARIABLES
    connections,      \* MCPConnectionManager.connections: insertion-ordered dict
    nextConn,         \* next connection object to construct
    config,           \* connection.config
    status,           \* connection.status
    transport,        \* connection.transport (0 = None)
    last_error,       \* connection.last_error ("none" = None)
    available_tools,  \* connection.available_tools
    lock,             \* connection._lock (0 = unlocked, else the holder)
    prevStatus,       \* history: status before the latest assignment
    enumBy,           \* history: catalog enumerated by the latest connect()
    nextTr,           \* next transport object to construct
    tstate,           \* transport: "none" | "created" | "open" | "closed"
    towner,           \* connection that created the transport
    pc,               \* position of each task
    op,               \* the call a task is serving
    tconn,            \* local `connection` of the task
    ttr,              \* transport a task is awaiting on
    ret,              \* value returned to the caller of the API call
    exc,              \* exception raised to the caller of the API call
    lres,             \* value returned by list_all_tools
    told,             \* history: connection an add_server call replaced
    tdRaised,         \* history: the teardown of the disconnect() the task has
                      \* just returned from raised (reset at the next statement)
    running,          \* task executing between two suspension points
    opsStarted,
    turnsStarted,     \* turns (send_message calls) started so far
    probeFails,
    hlQueue,          \* list(self.connections.items()) still to visit
    hlRunning,        \* MCPConnectionManager._running
    hlCancel,         \* cancel() was called on _health_check_task
    clQueue,          \* cleanup(): connections.values() still to visit
    agent_tools,      \* AgentService.available_tools: insertion-ordered dict
    mcp_tools_cache,  \* AgentService.mcp_tools_cache (its keys)
    tools_lock,       \* AgentService._tools_lock (0 = unlocked, else the holder)
    committed,        \* history: the tables as the latest refresh left them
    active_conversations, \* AgentService.active_conversations (its keys)
    messages,         \* ConversationContext.messages of the conversation
    tool_results,     \* ConversationContext.tool_results of the conversation
    reaper,           \* the tasks running _periodic_cleanup
    cleanup_task,     \* AgentService._cleanup_task (0 = None)
    rpCancel,         \* reaper tasks on which cancel() was called
    seen,             \* value returned by get_available_tools
    rf,               \* refresh_mcp_tools: locals `all_tools` (to visit), `tools`
    turn,             \* send_message: locals of the turn a task is serving
    sessions,         \* OllamaManager.active_conversations (its keys)
    bound,            \* ConversationContext.ollama_conversation_id, per conversation
    nextSession,      \* next LLM session id (uuid) to hand out
    convOld,          \* conversations with now - updated_at > MAX_CONVERSATION_AGE_HOURS
    conv_lock,        \* AgentService._conversation_lock (0 = unlocked, else the holder)
    lastSweep,        \* history: what the latest _cleanup_old_conversations found
    added,            \* history: every message add_message was given, in order
    toolSchema,       \* the input schema of a tool, on its way to the LLM
    schemaStage,      \* how far the schema has come
    toolCall,         \* a tool call as _execute_tool_calls is given it
    callOut           \* what _execute_tool_calls makes of it

connVars == <<config, status, transport, last_error, available_tools, lock, prevStatus>>
trVars == <<nextTr, tstate, towner>>
taskVars == <<pc, op, tconn, ttr, ret, exc, lres, told, tdRaised>>
downVars == <<hlRunning, hlCancel, clQueue>>
agVars == <<agent_tools, mcp_tools_cache, tools_lock, committed, active_conversations,
            messages, tool_results, reaper, cleanup_task, rpCancel>>
agTaskVars == <<seen, rf, turn>>
storeVars == <<sessions, bound, nextSession, convOld, conv_lock, lastSweep, added>>
pureVars == <<toolSchema, schemaStage, toolCall, callOut>>
mgrVars == <<connections, nextConn, connVars, enumBy, trVars, downVars, probeFails, hlQueue>>
vars == <<connections, nextConn, connVars, enumBy, trVars, taskVars, running, downVars,
          opsStarted, turnsStarted, probeFails, hlQueue, agVars, agTaskVars, storeVars,
          pureVars>>

\* ------------------------------------------------------------ data values
Configs == [id : ServerIds, ctype : {"stdio", "http"}, target : BOOLEAN,
            enabled : BOOLEAN]
NoConfig == [id |-> 0, ctype |-> "stdio", target |-> FALSE, enabled |-> FALSE]
NoOp == [kind |-> "none", sid |-> 0, cfg |-> NoConfig, tool |-> "none"]
HlOp == [kind |-> "hl", sid |-> 0, cfg |-> NoConfig, tool |-> "none"]
NoList == [s \in {} |-> {}]

OpsAdd == {[kind |-> "add", sid |-> c.id, cfg |-> c, tool |-> "none"] : c \in Configs}
OpsRemove == {[kind |-> "remove", sid |-> s, cfg |-> NoConfig, tool |-> "none"] : s \in ServerIds}
OpsReconnect == {[kind |-> "reconnect", sid |-> s, cfg |-> NoConfig, tool |-> "none"] : s \in ServerIds}
OpsExec == {[kind |-> "exec", sid |-> s, cfg |-> NoConfig, tool |-> n] : s \in ServerIds, n \in Tools}
OpsList == {[kind |-> "list", sid |-> 0, cfg |-> NoConfig, tool |-> "none"]}
Ops == OpsAdd \cup OpsRemove \cup OpsReconnect \cup OpsExec \cup OpsList
CleanupOp == [kind |-> "cleanup", sid |-> 0, cfg |-> NoConfig, tool |-> "none"]

\* the agent service's values
Conv == 1                                  \* the conversation of the model
ConvIds == {1, 2}                          \* conversation ids callers supply
Sessions == 1..(MaxOps + 1)                \* LLM session ids
NoSweep == [ran |-> FALSE, old |-> {}, failed |-> {}]
NoSchema == [given |-> FALSE, keys |-> {}]
NoCall == [record |-> FALSE, name |-> "none", args |-> "none"]
NoOut == [done |-> FALSE, results |-> 0, tool |-> "none", ok |-> FALSE, error |-> "none",
          dispatched |-> FALSE]
ReaperIds == 1..(MaxOps + 1)               \* tasks created for _periodic_cleanup
NoSeen == [set |-> FALSE, tools |-> <<>>, servers |-> {}]
NoRf == [queue |-> <<>>, tools |-> <<>>]
NoTurn == [phase |-> "none", sent |-> <<>>, calls |-> <<>>, next |-> 0, results |-> <<>>,
           llm |-> 0, rounds |-> 0, reply |-> "none", follow |-> "none"]

\* ------------------------------------------------- the connections dict
Ids(conns) == {conns[i].id : i \in DOMAIN conns}
Has(sid) == sid \in Ids(connections)
GetIn(conns, sid) == conns[CHOOSE i \in DOMAIN conns : conns[i].id = sid].conn
Get(sid) == GetIn(connections, sid)
DelEntryKeeps(conns, sid) == conns
DelEntry(conns, sid) == SelectSeq(conns, LAMBDA e : e.id # sid)
PutEntry(conns, sid, c) ==
    IF sid \in Ids(conns)
    THEN [i \in DOMAIN conns |-> IF conns[i].id = sid THEN [id |-> sid, conn |-> c] ELSE conns[i]]
    ELSE Append(conns, [id |-> sid, conn |-> c])
Allocated == 1..(nextConn - 1)
\* server ids that some add_server call has registered so far
UsedIds == {config[c].id : c \in Allocated}

\* ------------------------------------------------------------------- Init
Init ==
    /\ connections = <<>>
    /\ nextConn = 1
    /\ config = [c \in Conns |-> NoConfig]
    /\ status = [c \in Conns |-> "disconnected"]
    /\ transport = [c \in Conns |-> 0]
    /\ last_error = [c \in Conns |-> "none"]
    /\ available_tools = [c \in Conns |-> {}]
    /\ lock = [c \in Conns |-> 0]
    /\ prevStatus = [c \in Conns |-> "disconnected"]
    /\ enumBy = [c \in Conns |-> {}]
    /\ nextTr = 1
    /\ tstate = [x \in Transports |-> "none"]
    /\ towner = [x \in Transports |-> 0]
    /\ pc = [t \in Tasks |-> IF t = HL THEN "hl_sleep" ELSE "idle"]
    /\ op = [t \in Tasks |-> IF t = HL THEN HlOp ELSE NoOp]
    /\ tconn = [t \in Tasks |-> 0]
    /\ ttr = [t \in Tasks |-> 0]
    /\ ret = [t \in Tasks |-> "none"]
    /\ exc = [t \in Tasks |-> "none"]
    /\ lres = [t \in Tasks |-> NoList]
    /\ told = [t \in Tasks |-> 0]
    /\ tdRaised = [t \in Tasks |-> FALSE]
    /\ hlRunning = TRUE
    /\ hlCancel = FALSE
    /\ clQueue = <<>>
    /\ running = 0
    /\ opsStarted = 0
    /\ turnsStarted = 0
    /\ probeFails = 0
    /\ hlQueue = <<>>
    /\ agent_tools = <<>>
    /\ mcp_tools_cache = {}
    /\ tools_lock = 0
    /\ committed = [tools |-> <<>>, servers |-> {}]
    /\ active_conversations = {}
    /\ sessions = {}
    /\ bound = [c \in ConvIds |-> 0]
    /\ nextSession = 1
    /\ convOld = {}
    /\ conv_lock = 0
    /\ lastSweep = NoSweep
    /\ added = <<>>
    /\ toolSchema = NoSchema
    /\ schemaStage = "none"
    /\ toolCall = NoCall
    /\ callOut = NoOut
    /\ messages = <<>>
    /\ tool_results = <<>>
    /\ reaper = [r \in ReaperIds |-> "none"]
    /\ cleanup_task = 0
    /\ rpCancel = {}
    /\ seen = [t \in Tasks |-> NoSeen]
    /\ rf = [t \in Tasks |-> NoRf]
    /\ turn = [t \in Tasks |-> NoTurn]

\* ------------------------------------------------------- shared helpers
\* asyncio.Lock: acquire succeeds at once only when the lock is not held
LockFreeAlways(c) == TRUE
LockFree(c) == lock[c] = 0

\* self.status = s, remembering the value it replaces
SetStatusOfAll(c, s) ==
    /\ status' = [d \in Conns |-> s]
    /\ prevStatus' = [prevStatus EXCEPT ![c] = status[c]]
SetStatus(c, s) ==
    /\ status' = [status EXCEPT ![c] = s]
    /\ prevStatus' = [prevStatus EXCEPT ![c] = status[c]]

Pop(q) == IF q = <<>> THEN q ELSE Tail(q)

\* Task.cancel() was called on the task: the next time the event loop
\* resumes it, CancelledError is thrown into its coroutine instead
Cancelled(t) == t = HL /\ hlCancel

\* where a task goes when connect() has returned r to its caller
\*   add_server / reconnect_server: `return await connection.connect()`
\*   _health_check_loop: the result is dropped, the for loop goes on
AddReturnTrue(r) == "true"
AddReturn(r) == r
AfterConnect(t, r) ==
    IF t = HL
    THEN /\ pc' = [pc EXCEPT ![t] = "hl_visit"]
         /\ hlQueue' = Pop(hlQueue)
         /\ ret' = ret
         /\ running' = running
    ELSE /\ pc' = [pc EXCEPT ![t] = "done"]
         /\ hlQueue' = hlQueue
         /\ ret' = [ret EXCEPT ![t] = AddReturn(r)]
         /\ running' = running

\* ------------------------------------------ MCPServerConnection.connect
\* `async with self._lock`: taken at once when free, else the task waits
ConnAcq(t) ==
    /\ running = t /\ pc[t] = "conn_acq"
    /\ IF LockFree(tconn[t])
       THEN /\ lock' = [lock EXCEPT ![tconn[t]] = t]
            /\ pc' = [pc EXCEPT ![t] = "conn_body"]
            /\ running' = running
       ELSE /\ lock' = lock
            /\ pc' = [pc EXCEPT ![t] = "conn_lockwait"]
            /\ running' = 0
    /\ tdRaised' = [tdRaised EXCEPT ![t] = FALSE]
    /\ UNCHANGED <<pureVars, storeVars, turnsStarted, agVars, agTaskVars, downVars, connections, nextConn, config, status, transport, last_error,
                   available_tools, prevStatus, enumBy, trVars, op, tconn, ttr, ret,
                   exc, lres, told, opsStarted, probeFails, hlQueue>>

ConnLockResume(t) ==
    /\ running = 0 /\ pc[t] = "conn_lockwait" /\ ~Cancelled(t)
    /\ LockFree(tconn[t])
    /\ lock' = [lock EXCEPT ![tconn[t]] = t]
    /\ pc' = [pc EXCEPT ![t] = "conn_body"]
    /\ running' = t
    /\ UNCHANGED <<pureVars, storeVars, turnsStarted, agVars, agTaskVars, downVars, connections, nextConn, config, status, transport, last_error,
                   available_tools, prevStatus, enumBy, trVars, op, tconn, ttr, ret,
                   exc, lres, told, tdRaised, opsStarted, probeFails, hlQueue>>

\* self.status = ServerStatus.CONNECTING
ConnBody(t) ==
    /\ running = t /\ pc[t] = "conn_body"
    /\ SetStatus(tconn[t], "connecting")
    /\ enumBy' = [enumBy EXCEPT ![tconn[t]] = {}]
    /\ pc' = [pc EXCEPT ![t] = "conn_build"]
    /\ UNCHANGED <<pureVars, storeVars, turnsStarted, agVars, agTaskVars, downVars, connections, nextConn, config, transport, last_error,
                   available_tools, lock, trVars, op, tconn, ttr, ret, exc,
                   lres, told, tdRaised, running, opsStarted, probeFails, hlQueue>>

\* build the transport from the configured kind (ValueError when the command
\* or url is missing), then `await self.transport.connect()`:
\* MCPStdioTransport.connect spawns the server and suspends,
\* MCPHTTPTransport.connect is a placeholder that returns at once and the
\* listing of tools is skipped for it.
ConnBuild(t) ==
    /\ running = t /\ pc[t] = "conn_build"
    /\ LET c == tconn[t] IN
       IF ~config[c].target
       THEN /\ pc' = [pc EXCEPT ![t] = "conn_except"]
            /\ UNCHANGED <<transport, trVars, ttr, running>>
       ELSE /\ transport' = [transport EXCEPT ![c] = nextTr]
            /\ towner' = [towner EXCEPT ![nextTr] = c]
            /\ nextTr' = nextTr + 1
            /\ ttr' = [ttr EXCEPT ![t] = nextTr]
            /\ IF config[c].ctype = "stdio"
               THEN /\ tstate' = [tstate EXCEPT ![nextTr] = "created"]
                    /\ pc' = [pc EXCEPT ![t] = "conn_io"]
                    /\ running' = 0
               ELSE /\ tstate' = [tstate EXCEPT ![nextTr] = "open"]
                    /\ pc' = [pc EXCEPT ![t] = "conn_ok"]
                    /\ running' = running
    /\ UNCHANGED <<pureVars, storeVars, turnsStarted, agVars, agTaskVars, downVars, connections, nextConn, config, status, last_error,
                   available_tools, lock, prevStatus, enumBy, op, tconn, ret, exc,
                   lres, told, tdRaised, opsStarted, probeFails, hlQueue>>

\* MCPStdioTransport.connect finishes: the session is open, or the transport
\* cleans itself up and re-raises
ConnIo(t) ==
    /\ running = 0 /\ pc[t] = "conn_io" /\ ~Cancelled(t)
    /\ \E ok \in BOOLEAN :
         IF ok
         THEN /\ tstate' = [tstate EXCEPT ![ttr[t]] = "open"]
              /\ pc' = [pc EXCEPT ![t] = "conn_list"]
              /\ running' = 0
         ELSE /\ tstate' = [tstate EXCEPT ![ttr[t]] = "closed"]
              /\ pc' = [pc EXCEPT ![t] = "conn_except"]
              /\ running' = t
    /\ UNCHANGED <<pureVars, storeVars, turnsStarted, agVars, agTaskVars, downVars, connections, nextConn, connVars, enumBy, nextTr, towner, op,
                   tconn, ttr, ret, exc, lres, told, tdRaised, opsStarted,
                   probeFails, hlQueue>>

\* `self.available_tools = await self.transport.list_tools()`, or [] when the
\* listing raises
ListedCatalogStale(c, ok, cat) == IF ok THEN cat ELSE available_tools[c]
ListedCatalog(c, ok, cat) == IF ok THEN cat ELSE {}
ConnList(t) ==
    /\ running = 0 /\ pc[t] = "conn_list" /\ ~Cancelled(t)
    /\ \E ok \in BOOLEAN, cat \in Catalogs :
         /\ available_tools' = [available_tools EXCEPT
                                  ![tconn[t]] = ListedCatalog(tconn[t], ok, cat)]
         /\ enumBy' = [enumBy EXCEPT ![tconn[t]] = IF ok THEN cat ELSE {}]
    /\ pc' = [pc EXCEPT ![t] = "conn_ok"]
    /\ running' = t
    /\ UNCHANGED <<pureVars, storeVars, turnsStarted, agVars, agTaskVars, downVars, connections, nextConn, config, status, transport, last_error,
                   lock, prevStatus, trVars, op, tconn, ttr, ret, exc, lres, told, tdRaised, opsStarted, probeFails, hlQueue>>

\* status = CONNECTED; last_error = None; return True (the lock is released)
ConnOk(t) ==
    /\ running = t /\ pc[t] = "conn_ok"
    /\ SetStatus(tconn[t], "connected")
    /\ last_error' = [last_error EXCEPT ![tconn[t]] = "none"]
    /\ lock' = [lock EXCEPT ![tconn[t]] = 0]
    /\ AfterConnect(t, "true")
    /\ UNCHANGED <<pureVars, storeVars, turnsStarted, agVars, agTaskVars, downVars, connections, nextConn, config, transport, available_tools,
                   enumBy, trVars, op, tconn, ttr, exc, lres, told, tdRaised, opsStarted,
                   probeFails>>

\* except Exception as e: status = ERROR; last_error = str(e); return False
ConnectFailStatusDisconnected == "disconnected"
ConnectFailStatus == "error"
ConnectFailErrorDropped(c) == "none"
ConnectFailError(c) == IF ~config[c].target THEN "value_error" ELSE "transport_error"
ConnExcept(t) ==
    /\ running = t /\ pc[t] = "conn_except"
    /\ SetStatus(tconn[t], ConnectFailStatus)
    /\ last_error' = [last_error EXCEPT ![tconn[t]] = ConnectFailError(tconn[t])]
    /\ lock' = [lock EXCEPT ![tconn[t]] = 0]
    /\ AfterConnect(t, "false")
    /\ UNCHANGED <<pureVars, storeVars, turnsStarted, agVars, agTaskVars, downVars, connections, nextConn, config, transport, available_tools,
                   enumBy, trVars, op, tconn, ttr, exc, lres, told, tdRaised, opsStarted,
                   probeFails>>


\* --------------------------------------- MCPServerConnection.disconnect
\* where a task goes when disconnect() has returned:
\*   remove_server (also when called by add_server): del self.connections[id]
\*   reconnect_server: await connection.connect()
\*   cleanup: the next connection of the for loop
AfterDisconnect(t) ==
    CASE op[t].kind = "reconnect" -> "conn_acq"
      [] op[t].kind = "cleanup" -> "cl_iter"
      [] OTHER -> "rm_del"

DiscAcq(t) ==
    /\ running = t /\ pc[t] = "disc_acq"
    /\ IF LockFree(tconn[t])
       THEN /\ lock' = [lock EXCEPT ![tconn[t]] = t]
            /\ pc' = [pc EXCEPT ![t] = "disc_body"]
            /\ running' = running
       ELSE /\ lock' = lock
            /\ pc' = [pc EXCEPT ![t] = "disc_lockwait"]
            /\ running' = 0
    /\ UNCHANGED <<pureVars, storeVars, turnsStarted, agVars, agTaskVars, downVars, connections, nextConn, config, status, transport, last_error,
                   available_tools, prevStatus, enumBy, trVars, op, tconn, ttr, ret,
                   exc, lres, told, tdRaised, opsStarted, probeFails, hlQueue>>

DiscLockResume(t) ==
    /\ running = 0 /\ pc[t] = "disc_lockwait"
    /\ LockFree(tconn[t])
    /\ lock' = [lock EXCEPT ![tconn[t]] = t]
    /\ pc' = [pc EXCEPT ![t] = "disc_body"]
    /\ running' = t
    /\ UNCHANGED <<pureVars, storeVars, turnsStarted, agVars, agTaskVars, downVars, connections, nextConn, config, status, transport, last_error,
                   available_tools, prevStatus, enumBy, trVars, op, tconn, ttr, ret,
                   exc, lres, told, tdRaised, opsStarted, probeFails, hlQueue>>

\* `if self.transport: await self.transport.cleanup()`.  Closing the exit
\* stack of an open stdio transport is I/O and suspends; a stdio transport
\* that never opened (or already cleaned itself up) and the HTTP transport
\* are cleaned up without suspending.
DiscBody(t) ==
    /\ running = t /\ pc[t] = "disc_body"
    /\ LET c == tconn[t]  x == transport[tconn[t]] IN
       IF x # 0 /\ config[c].ctype = "stdio" /\ tstate[x] = "open"
       THEN /\ ttr' = [ttr EXCEPT ![t] = x]
            /\ pc' = [pc EXCEPT ![t] = "disc_io"]
            /\ running' = 0
            /\ tstate' = tstate
       ELSE /\ ttr' = ttr
            /\ pc' = [pc EXCEPT ![t] = "disc_fin"]
            /\ running' = running
            /\ tstate' = IF x # 0 THEN [tstate EXCEPT ![x] = "closed"] ELSE tstate
    /\ UNCHANGED <<pureVars, storeVars, turnsStarted, agVars, agTaskVars, downVars, connections, nextConn, connVars, enumBy, nextTr, towner, op,
                   tconn, ret, exc, lres, told, tdRaised, opsStarted, probeFails,
                   hlQueue>>

\* where disconnect() goes when `await self.transport.cleanup()` has ended,
\* normally or by raising: `except Exception` logs the error and `finally`
\* runs in both cases, nothing is re-raised
AfterTeardownPropagates(raised) == IF raised THEN "raised" ELSE "disc_fin"
AfterTeardown(raised) == "disc_fin"

\* the teardown of the open transport ends.  Closing the exit stack may
\* raise; MCPStdioTransport.cleanup and disconnect() both log the error.
DiscIo(t) ==
    /\ running = 0 /\ pc[t] = "disc_io"
    /\ \E raised \in BOOLEAN :
         /\ tdRaised' = [tdRaised EXCEPT ![t] = raised]
         /\ pc' = [pc EXCEPT ![t] = AfterTeardown(raised)]
    /\ tstate' = [tstate EXCEPT ![ttr[t]] = "closed"]
    /\ running' = t
    /\ UNCHANGED <<pureVars, storeVars, turnsStarted, agVars, agTaskVars, downVars, connections, nextConn, connVars, enumBy, nextTr, towner, op,
                   tconn, ttr, ret, exc, lres, told, opsStarted,
                   probeFails, hlQueue>>

\* finally: self.transport = None; then status = DISCONNECTED;
\* available_tools = []; the lock is released and disconnect() returns
DiscFin(t) ==
    /\ running = t /\ pc[t] = "disc_fin"
    /\ transport' = [transport EXCEPT ![tconn[t]] = 0]
    /\ SetStatus(tconn[t], "disconnected")
    /\ available_tools' = [available_tools EXCEPT ![tconn[t]] = {}]
    /\ lock' = [lock EXCEPT ![tconn[t]] = 0]
    /\ pc' = [pc EXCEPT ![t] = AfterDisconnect(t)]
    /\ UNCHANGED <<pureVars, storeVars, turnsStarted, agVars, agTaskVars, downVars, connections, nextConn, config, last_error, enumBy, trVars, op,
                   tconn, ttr, ret, exc, lres, told, tdRaised, running,
                   opsStarted, probeFails, hlQueue>>

\* ------------------------------------------------- MCPConnectionManager
\* a request arrives and is served by the lowest idle task (the tasks are
\* interchangeable), between startup and shutdown: it starts serving the
\* call o.  Server ids are
\* interchangeable too, so they are numbered in the order of their first
\* registration: id n+1 is named only once id n has been registered.
Start(t, o) ==
    /\ running = 0 /\ pc[t] = "idle"
    /\ hlRunning
    /\ \A u \in ApiTasks : u < t => pc[u] # "idle"
    /\ o.sid > 1 => (o.sid - 1) \in UsedIds
    /\ opsStarted < MaxOps
    /\ opsStarted' = opsStarted + 1
    /\ o.kind = "turn" => turnsStarted < TurnsFollowed
    /\ turnsStarted' = IF o.kind = "turn" THEN turnsStarted + 1 ELSE turnsStarted
    /\ op' = [op EXCEPT ![t] = o]
    /\ pc' = [pc EXCEPT ![t] = o.kind]
    /\ running' = t
    /\ UNCHANGED <<pureVars, storeVars, agVars, agTaskVars, downVars, connections, nextConn, connVars, enumBy, trVars, tconn, ttr,
                   ret, exc, lres, told, tdRaised, probeFails, hlQueue>>

\* the call has returned (pc "done") or raised (pc "raised") to its caller:
\* the coroutine's frame and its locals are dropped and the task is idle
Return(t) ==
    /\ running = t /\ pc[t] \in {"done", "raised"}
    /\ turn[t].phase \in {"none", "end"}
    /\ seen' = [seen EXCEPT ![t] = NoSeen]
    /\ turn' = [turn EXCEPT ![t] = NoTurn]
    /\ pc' = [pc EXCEPT ![t] = "idle"]
    /\ op' = [op EXCEPT ![t] = NoOp]
    /\ tconn' = [tconn EXCEPT ![t] = 0]
    /\ ttr' = [ttr EXCEPT ![t] = 0]
    /\ ret' = [ret EXCEPT ![t] = "none"]
    /\ exc' = [exc EXCEPT ![t] = "none"]
    /\ lres' = [lres EXCEPT ![t] = NoList]
    /\ told' = [told EXCEPT ![t] = 0]
    /\ tdRaised' = [tdRaised EXCEPT ![t] = FALSE]
    /\ running' = 0
    /\ UNCHANGED <<pureVars, storeVars, turnsStarted, agVars, rf, downVars, connections, nextConn, connVars, enumBy, trVars, opsStarted,
                   probeFails, hlQueue>>

\* add_server: `if server_config.id in self.connections: await
\* self.remove_server(id)` (whose own membership test then holds too)
AddCheck(t) ==
    /\ running = t /\ pc[t] = "add"
    /\ IF Has(op[t].sid)
       THEN /\ tconn' = [tconn EXCEPT ![t] = Get(op[t].sid)]
            /\ told' = [told EXCEPT ![t] = Get(op[t].sid)]
            /\ pc' = [pc EXCEPT ![t] = "disc_acq"]
       ELSE /\ pc' = [pc EXCEPT ![t] = "add_new"]
            /\ UNCHANGED <<tconn, told>>
    /\ UNCHANGED <<pureVars, storeVars, turnsStarted, agVars, agTaskVars, downVars, connections, nextConn, connVars, enumBy, trVars, op, ttr, ret,
                   exc, lres, tdRaised, running, opsStarted, probeFails, hlQueue>>

\* connection = MCPServerConnection(config); self.connections[id] = connection;
\* then connect() when enabled, else return True
AddNew(t) ==
    /\ running = t /\ pc[t] = "add_new"
    /\ config' = [config EXCEPT ![nextConn] = op[t].cfg]
    /\ connections' = PutEntry(connections, op[t].sid, nextConn)
    /\ nextConn' = nextConn + 1
    /\ IF op[t].cfg.enabled
       THEN /\ tconn' = [tconn EXCEPT ![t] = nextConn]
            /\ pc' = [pc EXCEPT ![t] = "conn_acq"]
            /\ UNCHANGED <<ret, running>>
       ELSE /\ ret' = [ret EXCEPT ![t] = "true"]
            /\ pc' = [pc EXCEPT ![t] = "done"]
            /\ running' = running
            /\ tconn' = tconn
    /\ UNCHANGED <<pureVars, storeVars, turnsStarted, agVars, agTaskVars, downVars, status, transport, last_error, available_tools, lock,
                   prevStatus, enumBy, trVars, op, ttr, exc, lres, told, tdRaised,
                   opsStarted, probeFails, hlQueue>>

\* remove_server: `if server_id in self.connections:
\*                     await self.connections[server_id].disconnect()`
RmCheck(t) ==
    /\ running = t /\ pc[t] = "remove"
    /\ IF Has(op[t].sid)
       THEN /\ tconn' = [tconn EXCEPT ![t] = Get(op[t].sid)]
            /\ pc' = [pc EXCEPT ![t] = "disc_acq"]
            /\ running' = running
       ELSE /\ tconn' = tconn
            /\ pc' = [pc EXCEPT ![t] = "done"]
            /\ running' = running
    /\ UNCHANGED <<pureVars, storeVars, turnsStarted, agVars, agTaskVars, downVars, connections, nextConn, connVars, enumBy, trVars, op, ttr, ret,
                   exc, lres, told, tdRaised, opsStarted, probeFails, hlQueue>>

\* `del self.connections[server_id]` (KeyError when the key is gone)
RmDel(t) ==
    /\ running = t /\ pc[t] = "rm_del"
    /\ IF Has(op[t].sid)
       THEN /\ connections' = DelEntry(connections, op[t].sid)
            /\ exc' = exc
            /\ IF op[t].kind = "add"
               THEN /\ pc' = [pc EXCEPT ![t] = "add_new"]
                    /\ running' = running
               ELSE /\ pc' = [pc EXCEPT ![t] = "done"]
                    /\ running' = running
       ELSE /\ connections' = connections
            /\ exc' = [exc EXCEPT ![t] = "KeyError"]
            /\ pc' = [pc EXCEPT ![t] = "raised"]
            /\ running' = running
    /\ tdRaised' = [tdRaised EXCEPT ![t] = FALSE]
    /\ UNCHANGED <<pureVars, storeVars, turnsStarted, agVars, agTaskVars, downVars, nextConn, connVars, enumBy, trVars, op, tconn, ttr, ret,
                   lres, told, opsStarted, probeFails, hlQueue>>

\* reconnect_server: False when the id is unknown, else disconnect + connect
RcCheck(t) ==
    /\ running = t /\ pc[t] = "reconnect"
    /\ IF Has(op[t].sid)
       THEN /\ tconn' = [tconn EXCEPT ![t] = Get(op[t].sid)]
            /\ pc' = [pc EXCEPT ![t] = "disc_acq"]
            /\ UNCHANGED <<ret, running>>
       ELSE /\ tconn' = tconn
            /\ ret' = [ret EXCEPT ![t] = "false"]
            /\ pc' = [pc EXCEPT ![t] = "done"]
            /\ running' = running
    /\ UNCHANGED <<pureVars, storeVars, turnsStarted, agVars, agTaskVars, downVars, connections, nextConn, connVars, enumBy, trVars, op, ttr, exc,
                   lres, told, tdRaised, opsStarted, probeFails, hlQueue>>


\* execute_tool, registry level then connection level, up to the await of
\* transport.call_tool:
\*   unknown server id           -> {"success": False, error "... not found"}
\*   status != CONNECTED or no transport -> raise RuntimeError
\*   tool name not in the catalog -> raise ValueError
ExecAbsentKeyError == [pc |-> "raised", ret |-> "none", exc |-> "KeyError"]
ExecAbsent == [pc |-> "done", ret |-> "fail_not_found", exc |-> "none"]
ExecNotConnected == [pc |-> "raised", ret |-> "none", exc |-> "RuntimeError"]
ExecNoTool == [pc |-> "raised", ret |-> "none", exc |-> "ValueError"]
ExecUnsupported == [pc |-> "done", ret |-> "fail_transport", exc |-> "none"]
ExecCheck(t) ==
    /\ running = t /\ pc[t] = "exec"
    /\ LET sid == op[t].sid
           c == Get(sid)
           out == IF ~Has(sid) THEN ExecAbsent
                  ELSE IF status[c] # "connected" \/ transport[c] = 0 THEN ExecNotConnected
                  ELSE IF op[t].tool \notin available_tools[c] THEN ExecNoTool
                  ELSE ExecUnsupported
       IN IF Has(sid) /\ status[c] = "connected" /\ transport[c] # 0
             /\ op[t].tool \in available_tools[c] /\ config[c].ctype = "stdio"
          THEN /\ tconn' = [tconn EXCEPT ![t] = c]
               /\ ttr' = [ttr EXCEPT ![t] = transport[c]]
               /\ pc' = [pc EXCEPT ![t] = "exec_io"]
               /\ running' = 0
               /\ UNCHANGED <<ret, exc>>
          ELSE /\ pc' = [pc EXCEPT ![t] = out.pc]
               /\ ret' = [ret EXCEPT ![t] = out.ret]
               /\ exc' = [exc EXCEPT ![t] = out.exc]
               /\ UNCHANGED <<tconn, ttr, running>>
    /\ UNCHANGED <<pureVars, storeVars, turnsStarted, agVars, agTaskVars, downVars, connections, nextConn, connVars, enumBy, trVars, op, lres, told, tdRaised, opsStarted, probeFails, hlQueue>>

\* transport.call_tool finishes: a result, or an exception that execute_tool
\* turns into {"success": False, "error": str(e)}; a transport that was
\* cleaned up meanwhile has no session and can only fail
CallResultOnAnyTransport(ok, x) == IF ok THEN "ok" ELSE "fail_transport"
CallResult(ok, x) == IF ok /\ tstate[x] = "open" THEN "ok" ELSE "fail_transport"
ExecIo(t) ==
    /\ running = 0 /\ pc[t] = "exec_io"
    /\ \E ok \in BOOLEAN :
         ret' = [ret EXCEPT ![t] = CallResult(ok, ttr[t])]
    /\ pc' = [pc EXCEPT ![t] = "done"]
    /\ running' = t
    /\ UNCHANGED <<pureVars, storeVars, turnsStarted, agVars, agTaskVars, downVars, connections, nextConn, connVars, enumBy, trVars, op, tconn,
                   ttr, exc, lres, told, tdRaised, opsStarted, probeFails, hlQueue>>

\* list_all_tools: one entry per connection whose status is CONNECTED, its
\* value the names of the connection's catalog; no await inside
ListedAny(c) == TRUE
Listed(c) == status[c] = "connected"
ListAllTools ==
    [sid \in {connections[i].id : i \in {j \in DOMAIN connections : Listed(connections[j].conn)}}
       |-> available_tools[Get(sid)]]
ListRun(t) ==
    /\ running = t /\ pc[t] = "list"
    /\ lres' = [lres EXCEPT ![t] = ListAllTools]
    /\ pc' = [pc EXCEPT ![t] = "done"]
    /\ running' = running
    /\ UNCHANGED <<pureVars, storeVars, turnsStarted, agVars, agTaskVars, downVars, connections, nextConn, connVars, enumBy, trVars, op, tconn,
                   ttr, ret, exc, told, tdRaised, opsStarted, probeFails, hlQueue>>

\* ------------------------------------------------- _health_check_loop
\* the loop wakes from asyncio.sleep, tests `while self._running` and
\* snapshots list(connections.items())
HlWake ==
    /\ running = 0 /\ pc[HL] = "hl_sleep" /\ ~Cancelled(HL)
    /\ IF hlRunning
       THEN /\ hlQueue' = connections
            /\ pc' = [pc EXCEPT ![HL] = "hl_visit"]
            /\ running' = HL
       ELSE /\ hlQueue' = hlQueue
            /\ pc' = [pc EXCEPT ![HL] = "hl_done"]
            /\ running' = 0
    /\ UNCHANGED <<pureVars, storeVars, turnsStarted, agVars, agTaskVars, downVars, connections, nextConn, connVars, enumBy, trVars, op, tconn,
                   ttr, ret, exc, lres, told, tdRaised, opsStarted, probeFails>>

\* one turn of the for loop.  An enabled CONNECTED connection is probed by
\* health_check(): a stdio connection with a transport awaits list_tools(),
\* any other is reported healthy at once.  When the snapshot is used up the
\* loop sleeps.
VisitedIfEnabled(c) == config[c].enabled
Visited(c) == config[c].enabled /\ status[c] = "connected"
HlVisit ==
    /\ running = HL /\ pc[HL] = "hl_visit"
    /\ IF hlQueue = <<>>
       THEN /\ pc' = [pc EXCEPT ![HL] = "hl_sleep"]
            /\ running' = 0
            /\ tconn' = [tconn EXCEPT ![HL] = 0]
            /\ ttr' = [ttr EXCEPT ![HL] = 0]
            /\ hlQueue' = hlQueue
       ELSE LET c == Head(hlQueue).conn IN
            IF Visited(c) /\ config[c].ctype = "stdio" /\ transport[c] # 0
            THEN /\ tconn' = [tconn EXCEPT ![HL] = c]
                 /\ ttr' = [ttr EXCEPT ![HL] = transport[c]]
                 /\ pc' = [pc EXCEPT ![HL] = "hc_io"]
                 /\ running' = 0
                 /\ hlQueue' = hlQueue
            ELSE /\ hlQueue' = Tail(hlQueue)
                 /\ UNCHANGED <<pc, running, tconn, ttr>>
    /\ UNCHANGED <<pureVars, storeVars, turnsStarted, agVars, agTaskVars, downVars, connections, nextConn, connVars, enumBy, trVars, op, ret, exc,
                   lres, told, tdRaised, opsStarted, probeFails>>

\* where the loop goes when the probe raised: health_check() catches the
\* exception and returns False, and the loop awaits connection.connect()
ProbeFailedPcEndsLoop == "hl_done"
ProbeFailedPc == "conn_acq"

\* the probe's list_tools() finishes.  Healthy: next connection.  Raised:
\* health_check sets status = ERROR and last_error WITHOUT taking the lock
\* and returns False, and the loop awaits connection.connect().  A probe of
\* a transport that was torn down meanwhile always raises; MaxProbeFails
\* bounds the probes that raise on an open transport.
HcIo ==
    /\ running = 0 /\ pc[HL] = "hc_io" /\ ~Cancelled(HL)
    /\ \E ok \in BOOLEAN :
         IF ok /\ tstate[ttr[HL]] = "open"
         THEN /\ hlQueue' = Tail(hlQueue)
              /\ pc' = [pc EXCEPT ![HL] = "hl_visit"]
              /\ UNCHANGED <<status, prevStatus, last_error, probeFails>>
         ELSE /\ tstate[ttr[HL]] = "open" => probeFails < MaxProbeFails
              /\ probeFails' = IF tstate[ttr[HL]] = "open" THEN probeFails + 1
                                                          ELSE probeFails
              /\ SetStatus(tconn[HL], "error")
              /\ last_error' = [last_error EXCEPT ![tconn[HL]] = "probe_error"]
              /\ pc' = [pc EXCEPT ![HL] = ProbeFailedPc]
              /\ hlQueue' = hlQueue
    /\ running' = HL
    /\ UNCHANGED <<pureVars, storeVars, turnsStarted, agVars, agTaskVars, downVars, connections, nextConn, config, transport, available_tools,
                   lock, enumBy, trVars, op, tconn, ttr, ret, exc, lres,
                   told, tdRaised, opsStarted>>

\* ------------------------------------------------------------- cleanup()
\* The application shuts down (main.py, after the lifespan's yield) once no
\* request is being served.  cleanup() awaits stop_health_monitoring():
\* `_running = False`, then cancel() on the loop's task and `await` it.
CleanupStop(t) ==
    /\ running = 0 /\ hlRunning
    /\ \A u \in ApiTasks : pc[u] = "idle" /\ t <= u
    /\ hlRunning' = FALSE
    /\ hlCancel' = TRUE
    /\ op' = [op EXCEPT ![t] = CleanupOp]
    /\ pc' = [pc EXCEPT ![t] = "cl_await"]
    /\ UNCHANGED <<pureVars, storeVars, turnsStarted, agVars, agTaskVars, connections, nextConn, connVars, enumBy, trVars, tconn, ttr,
                   ret, exc, lres, told, tdRaised, running, opsStarted,
                   probeFails, hlQueue, clQueue>>

\* the event loop resumes the cancelled loop task: CancelledError is raised
\* at the await it is suspended in (the sleep, the probe, or inside
\* connect()).  No `except Exception` catches it; `async with self._lock`
\* releases the lock on the way out, the status stays as it is, and
\* `except asyncio.CancelledError: break` ends the loop.
HlCancelled ==
    /\ running = 0 /\ Cancelled(HL)
    /\ pc[HL] \in {"hl_sleep", "hc_io", "conn_lockwait", "conn_io", "conn_list"}
    /\ lock' = IF pc[HL] \in {"conn_io", "conn_list"}
                THEN [lock EXCEPT ![tconn[HL]] = 0] ELSE lock
    /\ pc' = [pc EXCEPT ![HL] = "hl_done"]
    /\ hlCancel' = FALSE
    /\ tconn' = [tconn EXCEPT ![HL] = 0]
    /\ ttr' = [ttr EXCEPT ![HL] = 0]
    /\ hlQueue' = <<>>
    /\ UNCHANGED <<pureVars, storeVars, turnsStarted, agVars, agTaskVars, connections, nextConn, config, status, transport, last_error,
                   available_tools, prevStatus, enumBy, trVars, op, ret, exc,
                   lres, told, tdRaised, running, opsStarted, probeFails,
                   hlRunning, clQueue>>

\* `await self._health_check_task` returns; the for loop starts iterating
\* self.connections.values()
CleanupResume(t) ==
    /\ running = 0 /\ pc[t] = "cl_await" /\ pc[HL] = "hl_done"
    /\ clQueue' = connections
    /\ pc' = [pc EXCEPT ![t] = "cl_iter"]
    /\ running' = t
    /\ UNCHANGED <<pureVars, storeVars, turnsStarted, agVars, agTaskVars, connections, nextConn, connVars, enumBy, trVars, op, tconn,
                   ttr, ret, exc, lres, told, tdRaised, opsStarted, probeFails,
                   hlQueue, hlRunning, hlCancel>>

\* one turn of `for connection in self.connections.values(): await
\* connection.disconnect()`; after the last one `self.connections.clear()`
Cleared(conns) == <<>>
CleanupIter(t) ==
    /\ running = t /\ pc[t] = "cl_iter"
    /\ IF clQueue = <<>>
       THEN /\ connections' = Cleared(connections)
            /\ pc' = [pc EXCEPT ![t] = "ag_cleanup"]
            /\ UNCHANGED <<tconn, clQueue>>
       ELSE /\ tconn' = [tconn EXCEPT ![t] = Head(clQueue).conn]
            /\ clQueue' = Tail(clQueue)
            /\ pc' = [pc EXCEPT ![t] = "disc_acq"]
            /\ connections' = connections
    /\ UNCHANGED <<pureVars, storeVars, turnsStarted, agVars, agTaskVars, nextConn, connVars, enumBy, trVars, op, ttr, ret, exc, lres,
                   told, tdRaised, running, opsStarted, probeFails, hlQueue,
                   hlRunning, hlCancel>>

\* ------------------------------------------------------------------- Next
Next ==
    \/ \E t \in ApiTasks, o \in Ops : Start(t, o)
    \/ \E t \in ApiTasks : Return(t)
    \/ \E t \in ApiTasks : AddCheck(t)
    \/ \E t \in ApiTasks : AddNew(t)
    \/ \E t \in ApiTasks : RmCheck(t)
    \/ \E t \in ApiTasks : RmDel(t)
    \/ \E t \in ApiTasks : RcCheck(t)
    \/ \E t \in ApiTasks : ExecCheck(t)
    \/ \E t \in ApiTasks : ExecIo(t)
    \/ \E t \in ApiTasks : ListRun(t)
    \/ \E t \in Tasks : ConnAcq(t)
    \/ \E t \in Tasks : ConnLockResume(t)
    \/ \E t \in Tasks : ConnBody(t)
    \/ \E t \in Tasks : ConnBuild(t)
    \/ \E t \in Tasks : ConnIo(t)
    \/ \E t \in Tasks : ConnList(t)
    \/ \E t \in Tasks : ConnOk(t)
    \/ \E t \in Tasks : ConnExcept(t)
    \/ \E t \in ApiTasks : DiscAcq(t)
    \/ \E t \in ApiTasks : DiscLockResume(t)
    \/ \E t \in ApiTasks : DiscBody(t)
    \/ \E t \in ApiTasks : DiscIo(t)
    \/ \E t \in ApiTasks : DiscFin(t)
    \/ HlWake
    \/ HlVisit
    \/ HcIo

Spec == Init /\ [][Next]_vars

\* ----------------------------------------- the application with its shutdown
NextShutdown ==
    \/ Next
    \/ \E t \in ApiTasks : CleanupStop(t)
    \/ HlCancelled
    \/ \E t \in ApiTasks : CleanupResume(t)
    \/ \E t \in ApiTasks : CleanupIter(t)

SpecShutdown == Init /\ [][NextShutdown]_vars

\* ------------------------------------------- the health loop, with progress
\* The calls that change what the loop sees (tool servers added, replaced,
\* removed and reconnected), served one at a time next to the loop.  Only
\* stdio connections are probed: health_check() of an HTTP connection
\* returns True without any I/O.
HealthOps ==
    {o \in OpsAdd : o.cfg.ctype = "stdio"} \cup OpsRemove \cup OpsReconnect
HealthTasks == {1, HL}

NextHealth ==
    \/ \E o \in HealthOps : Start(1, o)
    \/ Return(1)
    \/ AddCheck(1)
    \/ AddNew(1)
    \/ RmCheck(1)
    \/ RmDel(1)
    \/ RcCheck(1)
    \/ \E t \in HealthTasks : ConnAcq(t)
    \/ \E t \in HealthTasks : ConnLockResume(t)
    \/ \E t \in HealthTasks : ConnBody(t)
    \/ \E t \in HealthTasks : ConnBuild(t)
    \/ \E t \in HealthTasks : ConnIo(t)
    \/ \E t \in HealthTasks : ConnList(t)
    \/ \E t \in HealthTasks : ConnOk(t)
    \/ \E t \in HealthTasks : ConnExcept(t)
    \/ DiscAcq(1)
    \/ DiscLockResume(1)
    \/ DiscBody(1)
    \/ DiscIo(1)
    \/ DiscFin(1)
    \/ HlWake
    \/ HlVisit
    \/ HcIo

\* The event loop runs every task that is ready, and an awaited I/O or
\* sleep that can complete does complete: each task's next step is taken
\* when it stays possible.
TaskNext(t) ==
    \/ Return(t) \/ AddCheck(t) \/ AddNew(t) \/ RmCheck(t) \/ RmDel(t)
    \/ RcCheck(t)
    \/ ConnAcq(t) \/ ConnLockResume(t) \/ ConnBody(t) \/ ConnBuild(t)
    \/ ConnIo(t) \/ ConnList(t) \/ ConnOk(t) \/ ConnExcept(t)
    \/ DiscAcq(t) \/ DiscLockResume(t) \/ DiscBody(t) \/ DiscIo(t)
    \/ DiscFin(t)
LoopNext ==
    \/ HlWake \/ HlVisit \/ HcIo
    \/ ConnAcq(HL) \/ ConnLockResume(HL) \/ ConnBody(HL) \/ ConnBuild(HL)
    \/ ConnIo(HL) \/ ConnList(HL) \/ ConnOk(HL) \/ ConnExcept(HL)

SpecHealth ==
    Init /\ [][NextHealth]_vars /\ WF_vars(LoopNext) /\ WF_vars(TaskNext(1))

\* ------------------------------------------- AgentService: the tool tables
OpsRefresh == {[kind |-> "refresh", sid |-> 0, cfg |-> NoConfig, tool |-> "none"]}
OpsTools == {[kind |-> "tools", sid |-> 0, cfg |-> NoConfig, tool |-> "none"]}
OpsTurn == {[kind |-> "turn", sid |-> 0, cfg |-> NoConfig, tool |-> "none"]}
OpsInitialize == {[kind |-> "initialize", sid |-> 0, cfg |-> NoConfig, tool |-> "none"]}

\* the names of a catalog, in the order the server lists them
RECURSIVE SeqOf(_)
SeqOf(S) ==
    IF S = {} THEN <<>>
    ELSE LET x == CHOOSE y \in S : TRUE IN <<x>> \o SeqOf(S \ {x})
IdSeq(conns) == [i \in DOMAIN conns |-> conns[i].id]
\* the formatted tools of one server: key "<server_id>_<name>"
ToolEntries(sid, names) ==
    LET ns == SeqOf(names) IN [i \in DOMAIN ns |-> [server |-> sid, name |-> ns[i]]]

\* refresh_mcp_tools: `async with self._tools_lock`
RefreshAcq(t) ==
    /\ running = t /\ pc[t] \in {"refresh", "initialize"}
    /\ IF tools_lock = 0
       THEN /\ tools_lock' = t
            /\ pc' = [pc EXCEPT ![t] = "rf_clear"]
            /\ running' = t
       ELSE /\ pc' = [pc EXCEPT ![t] = "rf_lockwait"]
            /\ running' = 0
            /\ UNCHANGED tools_lock
    /\ UNCHANGED <<pureVars, storeVars, mgrVars, opsStarted, turnsStarted, op, tconn, ttr, ret, exc, lres, told, tdRaised,
                   agent_tools, mcp_tools_cache, committed, active_conversations, messages,
                   tool_results, reaper, cleanup_task, rpCancel, agTaskVars>>

\* `tools = []; self.mcp_tools_cache.clear(); all_tools = await
\* connection_manager.list_all_tools()`: list_all_tools awaits nothing, so
\* the caller goes on without having been suspended
AfterListYields(t) == 0
AfterList(t) == t
RefreshClear(t) ==
    /\ running = t /\ pc[t] = "rf_clear"
    /\ mcp_tools_cache' = {}
    /\ lres' = [lres EXCEPT ![t] = ListAllTools]
    /\ rf' = [rf EXCEPT ![t] =
                [queue |-> SelectSeq(IdSeq(connections), LAMBDA s : s \in DOMAIN ListAllTools),
                 tools |-> <<>>]]
    /\ pc' = [pc EXCEPT ![t] = "rf_visit"]
    /\ running' = AfterList(t)
    /\ UNCHANGED <<pureVars, storeVars, mgrVars, opsStarted, turnsStarted, op, tconn, ttr, ret, exc, told, tdRaised,
                   agent_tools, tools_lock, committed, active_conversations, messages,
                   tool_results, reaper, cleanup_task, rpCancel, seen, turn>>

\* one turn of `for server_id, server_tools in all_tools.items()`: a server
\* whose get_server_status is None or not "connected" is skipped
RefreshKeeps(sid) == Has(sid) /\ status[Get(sid)] = "connected"
RefreshServer(t) ==
    /\ running = t /\ pc[t] = "rf_visit" /\ rf[t].queue # <<>>
    /\ LET sid == Head(rf[t].queue)
           keep == RefreshKeeps(sid)
       IN /\ rf' = [rf EXCEPT ![t] =
                      [queue |-> Tail(rf[t].queue),
                       tools |-> IF keep THEN rf[t].tools \o ToolEntries(sid, lres[t][sid])
                                 ELSE rf[t].tools]]
          /\ mcp_tools_cache' = IF keep THEN mcp_tools_cache \cup {sid} ELSE mcp_tools_cache
    /\ UNCHANGED <<pureVars, storeVars, mgrVars, opsStarted, turnsStarted, pc, op, tconn, ttr, ret, exc, lres, told, tdRaised,
                   running, agent_tools, tools_lock, committed, active_conversations,
                   messages, tool_results, reaper, cleanup_task, rpCancel, seen, turn>>

\* `self.available_tools = {tool["key"]: tool for tool in tools}`, and the
\* lock is released
AfterRefresh(t) == IF op[t].kind = "initialize" THEN "init_create" ELSE "done"
RefreshSwap(t) ==
    /\ running = t /\ pc[t] = "rf_visit" /\ rf[t].queue = <<>>
    /\ agent_tools' = rf[t].tools
    /\ committed' = [tools |-> rf[t].tools, servers |-> mcp_tools_cache]
    /\ tools_lock' = 0
    /\ rf' = [rf EXCEPT ![t] = NoRf]
    /\ lres' = [lres EXCEPT ![t] = NoList]
    /\ pc' = [pc EXCEPT ![t] = AfterRefresh(t)]
    /\ UNCHANGED <<pureVars, storeVars, mgrVars, opsStarted, turnsStarted, op, tconn, ttr, ret, exc, told, tdRaised, running,
                   mcp_tools_cache, active_conversations, messages, tool_results, reaper,
                   cleanup_task, rpCancel, seen, turn>>

\* get_available_tools: reads both tables, awaits nothing
GetTools(t) ==
    /\ running = t /\ pc[t] = "tools"
    /\ seen' = [seen EXCEPT ![t] =
                  [set |-> TRUE, tools |-> agent_tools, servers |-> mcp_tools_cache]]
    /\ pc' = [pc EXCEPT ![t] = "done"]
    /\ UNCHANGED <<pureVars, storeVars, mgrVars, opsStarted, turnsStarted, op, tconn, ttr, ret, exc, lres, told, tdRaised,
                   running, agVars, rf, turn>>

\* ------------------------------------------- the application after startup
\* main.py lifespan: the configured servers were added and each connect()
\* succeeded with some catalog, then agent_service.initialize() refreshed
\* the tables and created the reaper; a conversation has been created.
\* Since then a server may have dropped: a reconnect_server request tore its
\* transport down and the new connect() failed.
Shapes == {[st |-> "connected", cat |-> {}], [st |-> "connected", cat |-> {"t1"}],
           [st |-> "error", cat |-> {"t1"}]}
RECURSIVE StartupTools(_, _)
StartupTools(n, shape) ==
    IF n = 0 THEN <<>>
    ELSE StartupTools(n - 1, shape) \o ToolEntries(n, shape[n].cat)
\* the manager and the agent service after startup
AgentState ==
    \E n \in 0..2 : \E shape \in [1..n -> Shapes] :
    LET up(c) == c <= n /\ shape[c].st = "connected"
        dropped(c) == c <= n /\ shape[c].st = "error"
        \* the transport the failed reconnect built for connection c
        second(c) == n + Cardinality({d \in 1..c : dropped(d)})
        reg == StartupTools(n, shape)
    IN
    /\ connections = [i \in 1..n |-> [id |-> i, conn |-> i]]
    /\ nextConn = n + 1
    /\ config = [c \in Conns |-> IF c <= n
                                 THEN [id |-> c, ctype |-> "stdio", target |-> TRUE,
                                       enabled |-> TRUE]
                                 ELSE NoConfig]
    /\ status = [c \in Conns |-> IF c <= n THEN shape[c].st ELSE "disconnected"]
    /\ transport = [c \in Conns |-> IF up(c) THEN c ELSE IF dropped(c) THEN second(c) ELSE 0]
    /\ last_error = [c \in Conns |-> IF dropped(c) THEN "transport_error" ELSE "none"]
    /\ available_tools = [c \in Conns |-> IF up(c) THEN shape[c].cat ELSE {}]
    /\ lock = [c \in Conns |-> 0]
    /\ prevStatus = [c \in Conns |-> IF c <= n THEN "connecting" ELSE "disconnected"]
    /\ enumBy = [c \in Conns |-> IF up(c) THEN shape[c].cat ELSE {}]
    /\ nextTr = n + Cardinality({d \in 1..n : dropped(d)}) + 1
    /\ tstate = [x \in Transports |->
                   IF x \in 1..n THEN (IF up(x) THEN "open" ELSE "closed")
                   ELSE IF \E c \in 1..n : dropped(c) /\ second(c) = x THEN "closed"
                   ELSE "none"]
    /\ towner = [x \in Transports |->
                   IF x \in 1..n THEN x
                   ELSE IF \E c \in 1..n : dropped(c) /\ second(c) = x
                   THEN CHOOSE c \in 1..n : dropped(c) /\ second(c) = x
                   ELSE 0]
    /\ pc = [t \in Tasks |-> IF t = HL THEN "hl_sleep" ELSE "idle"]
    /\ op = [t \in Tasks |-> IF t = HL THEN HlOp ELSE NoOp]
    /\ tconn = [t \in Tasks |-> 0]
    /\ ttr = [t \in Tasks |-> 0]
    /\ ret = [t \in Tasks |-> "none"]
    /\ exc = [t \in Tasks |-> "none"]
    /\ lres = [t \in Tasks |-> NoList]
    /\ told = [t \in Tasks |-> 0]
    /\ tdRaised = [t \in Tasks |-> FALSE]
    /\ hlRunning = TRUE
    /\ hlCancel = FALSE
    /\ clQueue = <<>>
    /\ running = 0
    /\ opsStarted = 0
    /\ turnsStarted = 0
    /\ probeFails = 0
    /\ hlQueue = <<>>
    /\ agent_tools = reg
    /\ mcp_tools_cache = 1..n
    /\ tools_lock = 0
    /\ committed = [tools |-> reg, servers |-> 1..n]
    /\ active_conversations = {Conv}
    /\ sessions = {1}
    /\ bound = [c \in ConvIds |-> IF c = Conv THEN 1 ELSE 0]
    /\ nextSession = 2
    /\ convOld = {}
    /\ conv_lock = 0
    /\ lastSweep = NoSweep
    /\ added = <<>>
    /\ messages = <<>>
    /\ tool_results = <<>>
    /\ reaper = [r \in ReaperIds |-> IF r = 1 THEN "sleeping" ELSE "none"]
    /\ cleanup_task = 1
    /\ rpCancel = {}
    /\ seen = [t \in Tasks |-> NoSeen]
    /\ rf = [t \in Tasks |-> NoRf]
    /\ turn = [t \in Tasks |-> NoTurn]

InitAgent ==
    /\ AgentState
    /\ toolSchema = NoSchema
    /\ schemaStage = "none"
    /\ toolCall = NoCall
    /\ callOut = NoOut

\* ------------------------------------ AgentService: initialize and cleanup
\* initialize(), after its refresh: `self._cleanup_task =
\* asyncio.create_task(self._periodic_cleanup())`, whatever the handle held
InitCreate(t) ==
    /\ running = t /\ pc[t] = "init_create"
    /\ LET r == CHOOSE x \in ReaperIds :
                    reaper[x] = "none" /\ \A y \in ReaperIds : y < x => reaper[y] # "none"
       IN /\ reaper' = [reaper EXCEPT ![r] = "sleeping"]
          /\ cleanup_task' = r
    /\ pc' = [pc EXCEPT ![t] = "done"]
    /\ UNCHANGED <<pureVars, storeVars, mgrVars, opsStarted, turnsStarted, op, tconn, ttr, ret, exc, lres, told, tdRaised,
                   running, agent_tools, mcp_tools_cache, tools_lock, committed,
                   active_conversations, messages, tool_results, rpCancel, agTaskVars>>

\* the clock passes updated_at + MAX_CONVERSATION_AGE_HOURS of a conversation
Age(c) ==
    /\ running = 0 /\ c \in active_conversations /\ c \notin convOld
    /\ convOld' = convOld \cup {c}
    /\ UNCHANGED <<pureVars, mgrVars, opsStarted, turnsStarted, taskVars, running, agVars, agTaskVars,
                   sessions, bound, nextSession, conv_lock, lastSweep, added>>

\* the event-loop token of reaper task r while it runs
RP(r) == HL + r

\* _periodic_cleanup: the hour's sleep ends and _cleanup_old_conversations
\* is entered: `async with self._conversation_lock` (no other code takes
\* this lock, and a sweep never suspends, so the lock is free)
ReaperWake(r) ==
    /\ running = 0 /\ reaper[r] = "sleeping" /\ r \notin rpCancel
    /\ conv_lock = 0
    /\ conv_lock' = RP(r)
    /\ reaper' = [reaper EXCEPT ![r] = "sweeping"]
    /\ running' = RP(r)
    /\ UNCHANGED <<pureVars, mgrVars, opsStarted, turnsStarted, taskVars, agent_tools, mcp_tools_cache,
                   tools_lock, committed, active_conversations, messages, tool_results,
                   cleanup_task, rpCancel, agTaskVars, sessions, bound, nextSession,
                   convOld, lastSweep, added>>

\* the conversations the first loop collects: `age > timedelta(hours=...)`
Expired == active_conversations \cap convOld

\* the first loop reaches the trim of a conversation that is not too old:
\* `len(context.messages) > MAX_MESSAGES_PER_CONVERSATION`, and then
\* `context.messages[-N:]` slices a deque, which raises TypeError
TrimRaises ==
    /\ Conv \in active_conversations \ convOld
    /\ Len(messages) > MaxMessages

\* the second loop: `pop(conv_id, None)`, then the LLM session's delete in a
\* try of its own, whose exception is logged; every collected id is popped
SweptUntilFailure(old) == {c \in old : \A d \in old : d < c => bound[d] \in sessions}
Swept(old) == old

\* the body of _cleanup_old_conversations under the lock, which has no
\* suspension point (ollama_service.delete_conversation awaits nothing);
\* an exception of the first loop ends the pass in the outer `except`
ReaperSweep(r) ==
    /\ running = RP(r) /\ reaper[r] = "sweeping"
    /\ LET gone == IF TrimRaises THEN {} ELSE Swept(Expired) IN
         /\ active_conversations' = active_conversations \ gone
         /\ sessions' = sessions \ {bound[c] : c \in gone}
         /\ bound' = [c \in ConvIds |-> IF c \in gone THEN 0 ELSE bound[c]]
         /\ convOld' = convOld \ gone
         /\ lastSweep' = [ran |-> TRUE, old |-> Expired,
                          failed |-> {c \in gone : bound[c] \notin sessions}]
         /\ messages' = IF Conv \in gone THEN <<>> ELSE messages
         /\ tool_results' = IF Conv \in gone THEN <<>> ELSE tool_results
         /\ added' = IF Conv \in gone THEN <<>> ELSE added
    /\ conv_lock' = 0
    /\ reaper' = [reaper EXCEPT ![r] = "sleeping"]
    /\ running' = 0
    /\ UNCHANGED <<pureVars, mgrVars, opsStarted, turnsStarted, taskVars, agent_tools, mcp_tools_cache,
                   tools_lock, committed, cleanup_task, rpCancel, agTaskVars, nextSession>>

\* a cancelled reaper is resumed: CancelledError, `break`
ReaperCancelled(r) ==
    /\ running = 0 /\ r \in rpCancel /\ reaper[r] \in {"sleeping", "sweeping"}
    /\ reaper' = [reaper EXCEPT ![r] = "done"]
    /\ rpCancel' = rpCancel \ {r}
    /\ UNCHANGED <<pureVars, storeVars, mgrVars, opsStarted, turnsStarted, taskVars, running, agent_tools, mcp_tools_cache,
                   tools_lock, committed, active_conversations, messages, tool_results,
                   cleanup_task, agTaskVars>>

\* AgentService.cleanup(): `if self._cleanup_task: self._cleanup_task.cancel();
\* await self._cleanup_task`
AgentCleanup(t) ==
    /\ running = t /\ pc[t] = "ag_cleanup"
    /\ IF cleanup_task # 0
       THEN /\ rpCancel' = IF reaper[cleanup_task] = "done" THEN rpCancel
                           ELSE rpCancel \cup {cleanup_task}
            /\ pc' = [pc EXCEPT ![t] = "ag_await"]
            /\ running' = 0
       ELSE /\ pc' = [pc EXCEPT ![t] = "done"]
            /\ UNCHANGED <<rpCancel, running>>
    /\ UNCHANGED <<pureVars, storeVars, mgrVars, opsStarted, turnsStarted, op, tconn, ttr, ret, exc, lres, told, tdRaised,
                   agent_tools, mcp_tools_cache, tools_lock, committed, active_conversations,
                   messages, tool_results, reaper, cleanup_task, agTaskVars>>

AgentCleanupResume(t) ==
    /\ running = 0 /\ pc[t] = "ag_await" /\ reaper[cleanup_task] = "done"
    /\ pc' = [pc EXCEPT ![t] = "done"]
    /\ running' = t
    /\ UNCHANGED <<pureVars, storeVars, mgrVars, opsStarted, turnsStarted, op, tconn, ttr, ret, exc, lres, told, tdRaised,
                   agVars, agTaskVars>>

\* the running application: POST /agent/initialize requests, the reaper, and
\* the shutdown (connection_manager.cleanup(), then agent_service.cleanup())
NextTasks ==
    \/ \E t \in ApiTasks : \E o \in OpsInitialize : Start(t, o)
    \/ \E t \in ApiTasks : Return(t)
    \/ \E t \in ApiTasks : RefreshAcq(t)
    \/ \E t \in ApiTasks : RefreshClear(t)
    \/ \E t \in ApiTasks : RefreshServer(t)
    \/ \E t \in ApiTasks : RefreshSwap(t)
    \/ \E t \in ApiTasks : InitCreate(t)
    \/ \E r \in ReaperIds : ReaperWake(r)
    \/ \E r \in ReaperIds : ReaperSweep(r)
    \/ \E c \in ConvIds : Age(c)
    \/ \E r \in ReaperIds : ReaperCancelled(r)
    \/ \E t \in ApiTasks : CleanupStop(t)
    \/ HlCancelled
    \/ \E t \in ApiTasks : CleanupResume(t)
    \/ \E t \in ApiTasks : CleanupIter(t)
    \/ \E t \in ApiTasks : DiscAcq(t)
    \/ \E t \in ApiTasks : DiscBody(t)
    \/ \E t \in ApiTasks : DiscIo(t)
    \/ \E t \in ApiTasks : DiscFin(t)
    \/ \E t \in ApiTasks : AgentCleanup(t)
    \/ \E t \in ApiTasks : AgentCleanupResume(t)

SpecTasks == InitAgent /\ [][NextTasks]_vars

\* ------------------------------------------------ AgentService: one turn
\* what the LLM service (ollama_service.send_message) does with a request:
\*   "raise":   it raises (service not initialised, session unknown);
\*   "apology": the backend chat request failed inside generate_response,
\*              which catches the failure and returns an AgentResponse
\*              holding an apology text, without tool calls;
\*   "reply":   the model's reply, with the tool calls it carries.
\* A tool call carries the function name the model gave ("" when it gave
\* none: `func.get("name", "")`).
CallNames == Tools \cup {""}
CallLists == UNION {[1..n -> CallNames] : n \in 0..MaxCalls}
LlmOutcomes ==
    {[kind |-> k, calls |-> <<>>] : k \in {"raise", "apology"}}
    \cup {[kind |-> "reply", calls |-> cs] : cs \in CallLists}
FollowOutcomes == {"raise", "apology", "reply", "reply_calls"}

\* send_message up to its first await: the conversation is looked up, the
\* tool list for the LLM is read from the registry, the request is sent
TurnBegin(t) ==
    /\ running = t /\ pc[t] = "turn"
    /\ IF Conv \notin active_conversations
       THEN /\ pc' = [pc EXCEPT ![t] = "raised"]
            /\ exc' = [exc EXCEPT ![t] = "ValueError"]
            /\ UNCHANGED <<turn, running>>
       ELSE /\ turn' = [turn EXCEPT ![t] =
                          [NoTurn EXCEPT !.phase = "llm", !.llm = 1, !.sent = agent_tools]]
            /\ pc' = [pc EXCEPT ![t] = "llm_io"]
            /\ running' = 0
            /\ UNCHANGED exc
    /\ UNCHANGED <<pureVars, storeVars, mgrVars, opsStarted, turnsStarted, op, tconn, ttr, ret, lres, told, tdRaised, agVars,
                   seen, rf>>

\* the first LLM call ends
AfterApology == "turn_store"
LlmReply(t) ==
    /\ running = 0 /\ pc[t] = "llm_io"
    /\ \E out \in LlmOutcomes :
         /\ turn' = [turn EXCEPT ![t].reply = out.kind,
                                 ![t].calls = out.calls,
                                 ![t].next = 1,
                                 ![t].rounds = IF out.calls # <<>> THEN 1 ELSE 0,
                                 ![t].phase = IF out.kind = "raise" THEN "end"
                                              ELSE IF out.calls # <<>> THEN "tools"
                                              ELSE "llm"]
         /\ pc' = [pc EXCEPT ![t] = IF out.kind = "raise" THEN "raised"
                                    ELSE IF out.kind = "apology" THEN AfterApology
                                    ELSE IF out.calls # <<>> THEN "tl_next"
                                    ELSE "turn_store"]
         /\ exc' = [exc EXCEPT ![t] = IF out.kind = "raise" THEN "HTTPException"
                                      ELSE "none"]
    /\ running' = t
    /\ UNCHANGED <<pureVars, storeVars, mgrVars, opsStarted, turnsStarted, op, tconn, ttr, ret, lres, told, tdRaised, agVars,
                   seen, rf>>

\* _execute_tool_calls: the result recorded for call number i
Result(i, name, ok, err) == [call |-> i, tool |-> name, ok |-> ok, error |-> err]
\* `for tool_key, tool_data in self.available_tools.items(): if
\* tool_data.get("name") == tool_name`: the first entry of that name
HasTool(name) == \E i \in DOMAIN agent_tools : agent_tools[i].name = name
FindTool(name) ==
    agent_tools[CHOOSE i \in DOMAIN agent_tools :
                    /\ agent_tools[i].name = name
                    /\ \A j \in DOMAIN agent_tools : j < i => agent_tools[j].name # name]
\* a call without a usable name: `results.append(...); continue`, which
\* passes over `context.add_tool_result`
RingAfterInvalid(ring, r) == ring

\* one turn of `for tool_call in tool_calls`, up to the await of the
\* dispatch; after the last call, `if tool_results:` sends the follow-up
ToolNext(t) ==
    /\ running = t /\ pc[t] = "tl_next"
    /\ LET i == turn[t].next
           name == turn[t].calls[i]
       IN IF i > Len(turn[t].calls)
          THEN /\ IF turn[t].results = <<>>
                  THEN /\ pc' = [pc EXCEPT ![t] = "turn_store"]
                       /\ UNCHANGED <<turn, running>>
                  ELSE IF Conv \notin active_conversations
                  THEN /\ turn' = [turn EXCEPT ![t].follow = "conv_not_found"]
                       /\ pc' = [pc EXCEPT ![t] = "turn_store"]
                       /\ UNCHANGED running
                  ELSE /\ turn' = [turn EXCEPT ![t].llm = @ + 1, ![t].phase = "follow"]
                       /\ pc' = [pc EXCEPT ![t] = "follow_io"]
                       /\ running' = 0
               /\ UNCHANGED <<op, tool_results>>
          ELSE IF name = ""
          THEN LET r == Result(i, "invalid", FALSE, "Invalid tool name")
               IN /\ turn' = [turn EXCEPT ![t].results = Append(@, r), ![t].next = i + 1]
                  /\ tool_results' = RingAfterInvalid(tool_results, r)
                  /\ UNCHANGED <<pc, op, running>>
          ELSE IF ~HasTool(name)
          THEN LET r == Result(i, name, FALSE, "Tool not found")
               IN /\ turn' = [turn EXCEPT ![t].results = Append(@, r), ![t].next = i + 1]
                  /\ tool_results' = Append(tool_results, r)
                  /\ UNCHANGED <<pc, op, running>>
          ELSE /\ op' = [op EXCEPT ![t].sid = FindTool(name).server, ![t].tool = name]
               /\ pc' = [pc EXCEPT ![t] = "exec"]
               /\ UNCHANGED <<turn, tool_results, running>>
    /\ UNCHANGED <<pureVars, storeVars, mgrVars, opsStarted, turnsStarted, tconn, ttr, ret, exc, lres, told, tdRaised,
                   agent_tools, mcp_tools_cache, tools_lock, committed, active_conversations,
                   messages, reaper, cleanup_task, rpCancel, seen, rf>>

\* what _execute_tool_calls makes of the outcome of execute_tool: the
\* dict's "success" and "error", or the exception that was raised
OutcomeOkAlways(r, e) == TRUE
OutcomeOk(r, e) == r = "ok" /\ e = "none"
OutcomeError(r, e) ==
    IF e # "none" THEN e
    ELSE CASE r = "ok" -> "none"
           [] r = "fail_not_found" -> "Server not found"
           [] OTHER -> "transport error"

\* the dispatched execute_tool has returned or raised
ToolDone(t) ==
    /\ running = t /\ pc[t] \in {"done", "raised"} /\ turn[t].phase = "tools"
    /\ LET i == turn[t].next
           r == Result(i, turn[t].calls[i], OutcomeOk(ret[t], exc[t]),
                       OutcomeError(ret[t], exc[t]))
       IN /\ turn' = [turn EXCEPT ![t].results = Append(@, r), ![t].next = i + 1]
          /\ tool_results' = Append(tool_results, r)
    /\ ret' = [ret EXCEPT ![t] = "none"]
    /\ exc' = [exc EXCEPT ![t] = "none"]
    /\ tconn' = [tconn EXCEPT ![t] = 0]
    /\ ttr' = [ttr EXCEPT ![t] = 0]
    /\ pc' = [pc EXCEPT ![t] = "tl_next"]
    /\ UNCHANGED <<pureVars, storeVars, mgrVars, opsStarted, turnsStarted, op, lres, told, tdRaised, running,
                   agent_tools, mcp_tools_cache, tools_lock, committed, active_conversations,
                   messages, reaper, cleanup_task, rpCancel, seen, rf>>

\* asyncio.wait_for gives up on a call_tool that has not answered in time
\* (MAX_TOOL_EXECUTION_TIME): the awaited call is cancelled, TimeoutError
AfterTimeoutRaises == "raised"
AfterTimeout == "tl_next"
ToolTimeout(t) ==
    /\ running = 0 /\ pc[t] = "exec_io" /\ turn[t].phase = "tools"
    /\ LET i == turn[t].next
           r == Result(i, turn[t].calls[i], FALSE, "Tool execution timeout")
       IN /\ turn' = [turn EXCEPT ![t].results = Append(@, r), ![t].next = i + 1,
                                  ![t].phase = IF AfterTimeout = "raised" THEN "end"
                                               ELSE @]
          /\ tool_results' = Append(tool_results, r)
    /\ tconn' = [tconn EXCEPT ![t] = 0]
    /\ ttr' = [ttr EXCEPT ![t] = 0]
    /\ pc' = [pc EXCEPT ![t] = AfterTimeout]
    /\ running' = t
    /\ UNCHANGED <<pureVars, storeVars, mgrVars, opsStarted, turnsStarted, op, ret, exc, lres, told, tdRaised,
                   agent_tools, mcp_tools_cache, tools_lock, committed, active_conversations,
                   messages, reaper, cleanup_task, rpCancel, seen, rf>>

\* _get_followup_response: the second LLM call ends; an exception is
\* caught and becomes an error text, and tool calls in the reply are not
\* looked at
AfterFollowupLoops(out) == IF out = "reply_calls" THEN "tl_next" ELSE "turn_store"
AfterFollowup(out) == "turn_store"
FollowReply(t) ==
    /\ running = 0 /\ pc[t] = "follow_io"
    /\ \E out \in FollowOutcomes :
         /\ turn' = [turn EXCEPT ![t].follow = out]
         /\ pc' = [pc EXCEPT ![t] = AfterFollowup(out)]
    /\ running' = t
    /\ UNCHANGED <<pureVars, storeVars, mgrVars, opsStarted, turnsStarted, op, tconn, ttr, ret, exc, lres, told, tdRaised,
                   agVars, seen, rf>>

\* `self.messages: deque = deque(maxlen=MAX_MESSAGES_PER_CONVERSATION)`:
\* an append to a full deque discards the entry at the other end
DequeAppendUnbounded(ms, m) == Append(ms, m)
DequeAppend(ms, m) ==
    IF Len(ms) >= MaxMessages THEN Tail(ms) \o <<m>> ELSE Append(ms, m)

\* `context.add_message("user", message); context.add_message("assistant",
\* response["response"]["content"])`, and the turn returns
FirstReply(t) == <<"first", turn[t].reply>>
FollowupReply(t) == <<"followup", turn[t].follow>>
UserMessage == <<"user", "message">>
StoredUserOnly(ms, u, a) == DequeAppend(ms, u)
StoredPair(ms, u, a) == DequeAppend(DequeAppend(ms, u), a)
TurnStore(t) ==
    /\ running = t /\ pc[t] = "turn_store"
    /\ LET u == [role |-> "user", content |-> UserMessage]
           a == [role |-> "assistant", content |-> FirstReply(t)]
       IN /\ messages' = StoredPair(messages, u, a)
          /\ added' = added \o <<u, a>>
    /\ convOld' = convOld \ {Conv}
    /\ turn' = [turn EXCEPT ![t].phase = "end"]
    /\ pc' = [pc EXCEPT ![t] = "done"]
    /\ UNCHANGED <<pureVars, sessions, bound, nextSession, conv_lock, lastSweep, mgrVars, opsStarted, turnsStarted, op, tconn, ttr, ret, exc, lres, told, tdRaised,
                   running, agent_tools, mcp_tools_cache, tools_lock, committed,
                   active_conversations, tool_results, reaper, cleanup_task, rpCancel,
                   seen, rf>>

\* ------------------------------- the agent service over the live registry
\* Requests for turns, refreshes and tool listings arrive freely; the
\* operator's remove and reconnect requests arrive one at a time.
AgentOps == OpsTurn \cup OpsRefresh \cup OpsTools \cup OpsRemove \cup OpsReconnect
StartAgent(t, o) ==
    /\ o.kind \in {"remove", "reconnect"} =>
          \A u \in ApiTasks : op[u].kind \notin {"remove", "reconnect"}
    /\ Start(t, o)
NextAgent ==
    \/ \E t \in ApiTasks : \E o \in AgentOps : StartAgent(t, o)
    \/ \E t \in ApiTasks : Return(t)
    \/ \E t \in ApiTasks : RmCheck(t)
    \/ \E t \in ApiTasks : RmDel(t)
    \/ \E t \in ApiTasks : RcCheck(t)
    \/ \E t \in ApiTasks : ExecCheck(t)
    \/ \E t \in ApiTasks : ExecIo(t)
    \/ \E t \in ApiTasks : ConnAcq(t)
    \/ \E t \in ApiTasks : ConnBody(t)
    \/ \E t \in ApiTasks : ConnBuild(t)
    \/ \E t \in ApiTasks : ConnIo(t)
    \/ \E t \in ApiTasks : ConnList(t)
    \/ \E t \in ApiTasks : ConnOk(t)
    \/ \E t \in ApiTasks : ConnExcept(t)
    \/ \E t \in ApiTasks : DiscAcq(t)
    \/ \E t \in ApiTasks : DiscBody(t)
    \/ \E t \in ApiTasks : DiscIo(t)
    \/ \E t \in ApiTasks : DiscFin(t)
    \/ \E t \in ApiTasks : RefreshAcq(t)
    \/ \E t \in ApiTasks : RefreshClear(t)
    \/ \E t \in ApiTasks : RefreshServer(t)
    \/ \E t \in ApiTasks : RefreshSwap(t)
    \/ \E t \in ApiTasks : GetTools(t)
    \/ \E t \in ApiTasks : TurnBegin(t)
    \/ \E t \in ApiTasks : LlmReply(t)
    \/ \E t \in ApiTasks : ToolNext(t)
    \/ \E t \in ApiTasks : ToolDone(t)
    \/ \E t \in ApiTasks : ToolTimeout(t)
    \/ \E t \in ApiTasks : FollowReply(t)
    \/ \E t \in ApiTasks : TurnStore(t)

SpecAgent == InitAgent /\ [][NextAgent]_vars

\* ------------------------------------------ turns on one conversation
\* a send_message request for the conversation arrives and its handler
\* starts, whatever the number of turns already in progress
StartTurn(t) ==
    /\ running = 0 /\ pc[t] = "idle"
    /\ \A u \in ApiTasks : u < t => pc[u] # "idle"
    /\ opsStarted < MaxOps
    /\ opsStarted' = opsStarted + 1
    /\ turnsStarted' = turnsStarted + 1
    /\ \E o \in OpsTurn : op' = [op EXCEPT ![t] = o]
    /\ pc' = [pc EXCEPT ![t] = "turn"]
    /\ running' = t
    /\ UNCHANGED <<pureVars, storeVars, mgrVars, tconn, ttr, ret, exc, lres, told, tdRaised,
                   agVars, agTaskVars>>
NextTurns ==
    \/ \E t \in ApiTasks : StartTurn(t)
    \/ \E t \in ApiTasks : Return(t)
    \/ \E t \in ApiTasks : TurnBegin(t)
    \/ \E t \in ApiTasks : LlmReply(t)
    \/ \E t \in ApiTasks : ToolNext(t)
    \/ \E t \in ApiTasks : FollowReply(t)
    \/ \E t \in ApiTasks : TurnStore(t)
\* no tool server is registered: a tool call of a reply is answered without
\* a dispatch, and a turn suspends in its calls of the LLM only
InitTurns == InitAgent /\ connections = <<>>
SpecTurns == InitTurns /\ [][NextTurns]_vars

\* ------------------------------------- AgentService: the conversation store
\* POST /agent/conversations, DELETE /agent/conversations/{id} and DELETE
\* /ollama/conversations/{id}; `sid` carries the id the caller supplies
OpsCreate == {[kind |-> "create", sid |-> c, cfg |-> NoConfig, tool |-> "none"] : c \in ConvIds}
OpsDelete == {[kind |-> "delete", sid |-> c, cfg |-> NoConfig, tool |-> "none"] : c \in ConvIds}
OpsLlmDelete ==
    {[kind |-> "llm_delete", sid |-> x, cfg |-> NoConfig, tool |-> "none"] : x \in Sessions}
StoreOps == OpsCreate \cup OpsDelete \cup OpsLlmDelete

\* a request for the conversation store arrives and its handler starts
StartStore(t, o) ==
    /\ running = 0 /\ pc[t] = "idle"
    /\ \A u \in ApiTasks : u < t => pc[u] # "idle"
    /\ opsStarted < MaxOps
    /\ opsStarted' = opsStarted + 1
    /\ op' = [op EXCEPT ![t] = o]
    /\ pc' = [pc EXCEPT ![t] = o.kind]
    /\ running' = t
    /\ UNCHANGED <<pureVars, storeVars, mgrVars, turnsStarted, tconn, ttr, ret, exc, lres, told, tdRaised,
                   agVars, agTaskVars>>

\* create_conversation: the LLM service opens a session under a fresh uuid,
\* and `self.active_conversations[conversation_id] = context` stores a new
\* context, in place of the one the id had; no lock is taken and nothing
\* suspends
CreateConversation(t) ==
    /\ running = t /\ pc[t] = "create"
    /\ nextSession \in Sessions
    /\ LET c == op[t].sid IN
         /\ sessions' = sessions \cup {nextSession}
         /\ nextSession' = nextSession + 1
         /\ bound' = [bound EXCEPT ![c] = nextSession]
         /\ active_conversations' = active_conversations \cup {c}
         /\ convOld' = convOld \ {c}
         /\ messages' = IF c = Conv THEN <<>> ELSE messages
         /\ tool_results' = IF c = Conv THEN <<>> ELSE tool_results
         /\ added' = IF c = Conv THEN <<>> ELSE added
    /\ ret' = [ret EXCEPT ![t] = "created"]
    /\ pc' = [pc EXCEPT ![t] = "done"]
    /\ UNCHANGED <<pureVars, mgrVars, opsStarted, turnsStarted, op, tconn, ttr, exc, lres, told, tdRaised,
                   running, agent_tools, mcp_tools_cache, tools_lock, committed, reaper,
                   cleanup_task, rpCancel, agTaskVars, conv_lock, lastSweep>>

\* OllamaService.delete_conversation(s): `if conversation_id in
\* self.manager.active_conversations: del ...` else HTTPException(404)
CloseRaises(s) == s \notin sessions

\* delete_conversation: an unknown id returns False; the LLM session is
\* closed first and `del self.active_conversations[conversation_id]` comes
\* after it, so when the close raises the `except Exception` returns False
\* with the conversation still stored; no lock is taken
DeleteConversation(t) ==
    /\ running = t /\ pc[t] = "delete"
    /\ LET c == op[t].sid IN
         IF c \notin active_conversations \/ CloseRaises(bound[c])
         THEN /\ ret' = [ret EXCEPT ![t] = "false"]
              /\ UNCHANGED <<active_conversations, sessions, bound, convOld, messages,
                             tool_results, added>>
         ELSE /\ ret' = [ret EXCEPT ![t] = "true"]
              /\ sessions' = sessions \ {bound[c]}
              /\ active_conversations' = active_conversations \ {c}
              /\ bound' = [bound EXCEPT ![c] = 0]
              /\ convOld' = convOld \ {c}
              /\ messages' = IF c = Conv THEN <<>> ELSE messages
              /\ tool_results' = IF c = Conv THEN <<>> ELSE tool_results
              /\ added' = IF c = Conv THEN <<>> ELSE added
    /\ pc' = [pc EXCEPT ![t] = "done"]
    /\ UNCHANGED <<pureVars, mgrVars, opsStarted, turnsStarted, op, tconn, ttr, exc, lres, told, tdRaised,
                   running, agent_tools, mcp_tools_cache, tools_lock, committed, reaper,
                   cleanup_task, rpCancel, agTaskVars, nextSession, conv_lock, lastSweep>>

\* DELETE /ollama/conversations/{id}: the LLM service's own route closes a
\* session, whichever conversation of the agent is bound to it
LlmDelete(t) ==
    /\ running = t /\ pc[t] = "llm_delete"
    /\ IF CloseRaises(op[t].sid)
       THEN /\ exc' = [exc EXCEPT ![t] = "HTTPException"]
            /\ pc' = [pc EXCEPT ![t] = "raised"]
            /\ UNCHANGED sessions
       ELSE /\ sessions' = sessions \ {op[t].sid}
            /\ pc' = [pc EXCEPT ![t] = "done"]
            /\ UNCHANGED exc
    /\ UNCHANGED <<pureVars, mgrVars, opsStarted, turnsStarted, op, tconn, ttr, ret, lres, told, tdRaised,
                   running, agVars, agTaskVars, bound, nextSession, convOld, conv_lock,
                   lastSweep, added>>

\* the agent service initialised with no tool server configured
InitStore == InitAgent /\ connections = <<>>

NextStore ==
    \/ \E t \in ApiTasks : \E o \in StoreOps : StartStore(t, o)
    \/ \E t \in ApiTasks : Return(t)
    \/ \E t \in ApiTasks : CreateConversation(t)
    \/ \E t \in ApiTasks : DeleteConversation(t)
    \/ \E t \in ApiTasks : LlmDelete(t)
    \/ \E c \in ConvIds : Age(c)
    \/ \E r \in ReaperIds : ReaperWake(r)
    \/ \E r \in ReaperIds : ReaperSweep(r)
SpecStore == InitStore /\ [][NextStore]_vars

\* ---------------------------------- ConversationContext: the message ring
Roles == {"system", "user", "assistant"}

\* the messages of a given role, in order
OfRole(ms, role) == SelectSeq(ms, LAMBDA m : m.role = role)

\* ConversationContext.add_message(role, content) on the conversation, the
\* k-th message it is given having content k: `self.messages.append(...)`,
\* `self.updated_at = datetime.utcnow()`
AddMessage(role) ==
    /\ running = 0 /\ Conv \in active_conversations
    /\ Len(added) < MaxAdds
    /\ LET m == [role |-> role, content |-> Len(added) + 1] IN
         /\ messages' = DequeAppend(messages, m)
         /\ added' = Append(added, m)
    /\ convOld' = convOld \ {Conv}
    /\ UNCHANGED <<pureVars, mgrVars, opsStarted, turnsStarted, taskVars, running, agent_tools, mcp_tools_cache,
                   tools_lock, committed, active_conversations, tool_results, reaper,
                   cleanup_task, rpCancel, agTaskVars, sessions, bound, nextSession,
                   conv_lock, lastSweep>>

\* one conversation within its age, its messages, and the reaper
NextHistory ==
    \/ \E role \in Roles : AddMessage(role)
    \/ \E r \in ReaperIds : ReaperWake(r)
    \/ \E r \in ReaperIds : ReaperSweep(r)
SpecHistory == InitStore /\ [][NextHistory]_vars

\* ------------------------------------ tool schemas on their way to the LLM
\* the keys a tool's inputSchema may have; `given` is FALSE for a tool whose
\* inputSchema is absent, empty or no dict
SchemaKeys == {"type", "properties", "required", "title", "$schema", "additionalProperties"}
SourceSchemas ==
    {NoSchema} \cup {[given |-> TRUE, keys |-> k] : k \in SUBSET SchemaKeys}

\* MCPConnectionManager.list_all_tools: `input_schema = {}` unless the tool
\* has a schema; `del input_schema["$schema"]`
ListedSchema(sch) == IF sch.given THEN sch.keys \ {"$schema"} ELSE {}

\* _convert_mcp_tool_to_openai: `parameters = tool["inputSchema"]`, without
\* its "$schema" and "additionalProperties"; it adds no key
OpenAiParameters(keys) == keys \ {"$schema", "additionalProperties"}

\* list_all_tools builds the tool's "input_schema"
SchemaListed ==
    /\ running = 0 /\ schemaStage = "declared"
    /\ toolSchema' = [given |-> TRUE, keys |-> ListedSchema(toolSchema)]
    /\ schemaStage' = "listed"
    /\ UNCHANGED <<mgrVars, opsStarted, turnsStarted, taskVars, running, agVars, agTaskVars,
                   storeVars, toolCall, callOut>>

\* refresh_mcp_tools: `"inputSchema": tool["input_schema"]`
SchemaRegistered ==
    /\ running = 0 /\ schemaStage = "listed"
    /\ schemaStage' = "registered"
    /\ UNCHANGED <<mgrVars, opsStarted, turnsStarted, taskVars, running, agVars, agTaskVars,
                   storeVars, toolSchema, toolCall, callOut>>

\* send_message: `tools_for_message = self.get_tools_in_openai_format()`,
\* which ollama_service.send_message passes on as it is
SchemaHanded ==
    /\ running = 0 /\ schemaStage = "registered"
    /\ toolSchema' = [given |-> TRUE, keys |-> OpenAiParameters(toolSchema.keys)]
    /\ schemaStage' = "handed"
    /\ UNCHANGED <<mgrVars, opsStarted, turnsStarted, taskVars, running, agVars, agTaskVars,
                   storeVars, toolCall, callOut>>

\* a tool server declares a tool with any schema
InitSchema ==
    /\ AgentState
    /\ connections = <<>>
    /\ toolSchema \in SourceSchemas
    /\ schemaStage = "declared"
    /\ toolCall = NoCall
    /\ callOut = NoOut
NextSchema ==
    \/ SchemaListed
    \/ SchemaRegistered
    \/ SchemaHanded
SpecSchema == InitSchema /\ [][NextSchema]_vars

\* ------------------------------- the registry's add and remove, overlapping
\* one tool server was registered at startup; add_server and remove_server
\* calls arrive while the health loop sleeps.  add_server connects a
\* connection it has just made, so no connect() waits for the lock here.
InitRegistry == InitAgent /\ Len(connections) = 1
NextRegistry ==
    \/ \E t \in ApiTasks, o \in OpsAdd \cup OpsRemove : Start(t, o)
    \/ \E t \in ApiTasks : Return(t)
    \/ \E t \in ApiTasks : AddCheck(t)
    \/ \E t \in ApiTasks : AddNew(t)
    \/ \E t \in ApiTasks : RmCheck(t)
    \/ \E t \in ApiTasks : RmDel(t)
    \/ \E t \in ApiTasks : ConnAcq(t)
    \/ \E t \in ApiTasks : ConnBody(t)
    \/ \E t \in ApiTasks : ConnBuild(t)
    \/ \E t \in ApiTasks : ConnIo(t)
    \/ \E t \in ApiTasks : ConnList(t)
    \/ \E t \in ApiTasks : ConnOk(t)
    \/ \E t \in ApiTasks : ConnExcept(t)
    \/ \E t \in ApiTasks : DiscAcq(t)
    \/ \E t \in ApiTasks : DiscLockResume(t)
    \/ \E t \in ApiTasks : DiscBody(t)
    \/ \E t \in ApiTasks : DiscIo(t)
    \/ \E t \in ApiTasks : DiscFin(t)
SpecRegistry == InitRegistry /\ [][NextRegistry]_vars

\* ------------------------------------------- one tool call of a batch of one
\* what _execute_tool_calls may be handed as a tool call: `record` is FALSE
\* for a value that is no dict; `name` is "absent" for a missing or None
\* "tool", "nonstring" for a name that is no str, else the name; `args` is
\* "absent" for a dict without "arguments", "map" for a dict, "other" for a
\* value that is no dict
CallShapes ==
    {NoCall} \cup {[record |-> TRUE, name |-> nm, args |-> ar] :
                      nm \in {"absent", "nonstring", "", "t1", "t2"},
                      ar \in {"absent", "map", "other"}}

\* `arguments = tool_call.get("arguments", {})`
ArgumentsOf(call) == IF call.args = "absent" THEN "map" ELSE call.args
\* `not tool_name or not isinstance(tool_name, str)`
BadName(call) == call.name \in {"absent", "nonstring", ""}
\* ToolResult(tool=..., arguments=arguments, ...): `arguments: Dict[str, Any]`
\* of the pydantic model raises a ValidationError for a value that is no
\* dict, and `except Exception: return []` ends the batch without results
LocalResult(tool, arguments, error) ==
    IF arguments = "map"
    THEN [done |-> TRUE, results |-> 1, tool |-> tool, ok |-> FALSE, error |-> error,
          dispatched |-> FALSE]
    ELSE [done |-> TRUE, results |-> 0, tool |-> "none", ok |-> FALSE, error |-> "none",
          dispatched |-> FALSE]

\* _execute_tool_calls on a batch of one call: the checks of the loop body in
\* their order, then the look-up in self.available_tools and the dispatch to
\* connection_manager.execute_tool, whose outcome makes the result
ExecuteCall ==
    /\ running = 0 /\ ~callOut.done
    /\ \E okOut \in BOOLEAN :
         callOut' =
           IF ~toolCall.record
           THEN LocalResult("invalid", "map", "Invalid tool call format")
           ELSE IF BadName(toolCall)
           THEN LocalResult("invalid", ArgumentsOf(toolCall), "Invalid tool name")
           ELSE IF ArgumentsOf(toolCall) # "map"
           THEN LocalResult(toolCall.name, "map", "Invalid tool arguments")
           ELSE IF ~HasTool(toolCall.name)
           THEN LocalResult(toolCall.name, "map", "Tool not found")
           ELSE [done |-> TRUE, results |-> 1, tool |-> toolCall.name, ok |-> okOut,
                 error |-> IF okOut THEN "none" ELSE "Tool execution failed",
                 dispatched |-> TRUE]
    /\ UNCHANGED <<mgrVars, opsStarted, turnsStarted, taskVars, running, agVars, agTaskVars,
                   storeVars, toolSchema, schemaStage, toolCall>>

\* the agent service after startup is handed a tool call of any shape
InitCalls ==
    /\ AgentState
    /\ toolSchema = NoSchema
    /\ schemaStage = "none"
    /\ toolCall \in CallShapes
    /\ callOut = NoOut
NextCalls ==
    \/ ExecuteCall
SpecCalls == InitCalls /\ [][NextCalls]_vars

\* ================================================================ claims
Stepped(t) == pc'[t] # pc[t]

\* C1 (as stated): every status change is one of the six transitions of the
\* connection state machine: Disconnected->Connecting, Error->Connecting,
\* Connecting->Connected, Connecting->Error, Connected->Disconnected,
\* Connected->Error.
SpecTransitions ==
    {<<"disconnected", "connecting">>, <<"error", "connecting">>,
     <<"connecting", "connected">>, <<"connecting", "error">>,
     <<"connected", "disconnected">>, <<"connected", "error">>}
CodeTransitions ==
    SpecTransitions \cup
    {<<"error", "disconnected">>, <<"connected", "connecting">>,
     <<"disconnected", "error">>, <<"error", "connected">>}
BodyPcs == {"conn_body", "conn_build", "conn_io", "conn_list", "conn_ok",
            "conn_except", "disc_body", "disc_io", "disc_fin"}
WaitPcs == {"conn_lockwait", "disc_lockwait"}
InBody(t, c) == pc[t] \in BodyPcs /\ tconn[t] = c
C2_MutualExclusion ==
    /\ [](\A c \in Conns :
            /\ Cardinality({t \in Tasks : InBody(t, c)}) <= 1
            /\ \A t \in Tasks : InBody(t, c) => lock[c] = t)
    /\ [][\A t \in Tasks, u \in Tasks :
            (pc[t] \in WaitPcs /\ u # t /\ InBody(u, tconn[t])) => pc'[t] = pc[t]]_vars
\* one task is inside a body while another waits for the same lock
C2_Witness ==
    \E c \in Allocated, t \in Tasks, u \in Tasks :
        InBody(t, c) /\ pc[u] \in WaitPcs /\ tconn[u] = c

\* C3 (as stated): every change of a connection's status or transport handle
\* is made by a task that holds that connection's lock.
C3_MutationsUnderLock ==
    [][\A c \in Conns :
          (status'[c] # status[c] \/ transport'[c] # transport[c])
          => \E t \in Tasks : Stepped(t) /\ (lock[c] = t \/ lock'[c] = t)]_vars

\* C4: a Connected connection has a transport handle, and its catalog is the
\* one enumerated by the connect() call that made it Connected.
C4_ConnectedHasTransportAndCatalog ==
    \A c \in Conns : status[c] = "connected"
        => transport[c] # 0 /\ available_tools[c] = enumBy[c]
C4_Witness ==
    \E c \in Allocated : status[c] = "connected" /\ available_tools[c] = {"t1"}
                         /\ prevStatus[c] = "connecting"


C6_ConnectFailureIsCaptured ==
    [][\A t \in Tasks : LET c == tconn[t] IN
          /\ (pc[t] = "conn_build" /\ Stepped(t) /\ ~config[c].target)
                => pc'[t] = "conn_except"
          /\ (pc[t] = "conn_io" /\ Stepped(t) /\ tstate'[ttr[t]] # "open")
                => pc'[t] = "conn_except"
          /\ (pc[t] = "conn_except" /\ Stepped(t)) =>
                /\ status'[c] = "error" /\ last_error'[c] # "none"
                /\ pc'[t] # "raised" /\ exc'[t] = "none"
                /\ t \in ApiTasks => pc'[t] = "done" /\ ret'[t] = "false"
                /\ op[t].kind = "add" => available_tools'[c] = {}]_vars
\* an add_server call has returned False for a connection left in Error
C6_Witness ==
    \E t \in ApiTasks : /\ op[t].kind = "add" /\ pc[t] = "done" /\ ret[t] = "false"
                        /\ status[tconn[t]] = "error"
                        /\ last_error[tconn[t]] = "transport_error"

\* C7 (as stated): when add_server replaces an existing entry, the map then
\* holds exactly one entry for the id, carrying the new config, and no
\* transport created for the old connection is still open.
C7_ReplaceLeavesNoOpenTransport ==
    [][\A t \in ApiTasks :
          (pc[t] = "add_new" /\ Stepped(t) /\ told[t] # 0) =>
             /\ Cardinality({i \in DOMAIN connections' :
                               connections'[i].id = op[t].sid}) = 1
             /\ config'[GetIn(connections', op[t].sid)] = op[t].cfg
             /\ \A x \in Transports : towner[x] = told[t] => tstate'[x] # "open"]_vars

\* C8: add_server of a disabled server registers the connection Disconnected,
\* never calls connect() and returns True; add_server of an enabled server
\* calls connect() on the new connection and returns exactly its result.
C8_AddServerResult ==
    [][\A t \in ApiTasks :
          /\ (pc[t] = "add_new" /\ Stepped(t)) =>
               /\ GetIn(connections', op[t].sid) = nextConn
               /\ IF op[t].cfg.enabled
                  THEN pc'[t] = "conn_acq" /\ tconn'[t] = nextConn
                  ELSE /\ pc'[t] = "done" /\ ret'[t] = "true"
                       /\ status'[nextConn] = "disconnected"
                       /\ transport'[nextConn] = 0 /\ nextTr' = nextTr
          /\ (op[t].kind = "add" /\ pc[t] = "conn_ok" /\ Stepped(t))
               => pc'[t] = "done" /\ ret'[t] = "true"
          /\ (op[t].kind = "add" /\ pc[t] = "conn_except" /\ Stepped(t))
               => pc'[t] = "done" /\ ret'[t] = "false"
          /\ (op'[t].kind = "add" /\ ~op'[t].cfg.enabled)
               => pc'[t] \notin {"conn_acq", "conn_lockwait", "conn_body",
                                 "conn_build", "conn_io", "conn_list",
                                 "conn_ok", "conn_except"}]_vars
\* a disabled server has been added: registered, Disconnected, True returned
C8_Witness ==
    \E t \in ApiTasks : /\ op[t].kind = "add" /\ ~op[t].cfg.enabled
                        /\ pc[t] = "done" /\ ret[t] = "true"
                        /\ Has(op[t].sid)
                        /\ config[Get(op[t].sid)] = op[t].cfg
                        /\ status[Get(op[t].sid)] = "disconnected"

C10_ListOnlyConnected ==
    [][\A t \in ApiTasks : (pc[t] = "list" /\ Stepped(t)) =>
          /\ \A sid \in DOMAIN lres'[t] :
                Has(sid) /\ status[Get(sid)] = "connected"
          /\ \A i \in DOMAIN connections :
                status[connections[i].conn] = "connected" =>
                   /\ connections[i].id \in DOMAIN lres'[t]
                   /\ lres'[t][connections[i].id]
                        = available_tools[connections[i].conn]]_vars
\* a query made while the only registered connection was still Connecting
\* returned nothing
C10_Witness ==
    /\ op[2].kind = "list" /\ pc[2] = "done" /\ lres[2] = NoList
    /\ op[1].kind = "add" /\ connections # <<>>

\* ------------------------------------------------------------------- C11
\* C11: when disconnect() returns, whatever the status was before and also
\* when the teardown of the transport raised, the status is DISCONNECTED,
\* the catalog is empty and the transport handle is None; the call goes on
\* with its caller's next statement, no exception leaves disconnect().
C11_DisconnectAlwaysCompletes ==
    [][\A t \in Tasks :
          /\ (pc[t] \in {"disc_body", "disc_io"} /\ Stepped(t)) =>
                pc'[t] \in {"disc_io", "disc_fin"}
          /\ (pc[t] = "disc_fin" /\ Stepped(t)) =>
                /\ status'[tconn[t]] = "disconnected"
                /\ available_tools'[tconn[t]] = {}
                /\ transport'[tconn[t]] = 0
                /\ pc'[t] = AfterDisconnect(t)
                /\ exc'[t] = "none"]_vars

\* a disconnect() whose teardown raised has returned to remove_server
C11_Witness ==
    \E t \in ApiTasks :
        /\ tdRaised[t] /\ pc[t] = "rm_del"
        /\ status[tconn[t]] = "disconnected" /\ transport[tconn[t]] = 0
        /\ prevStatus[tconn[t]] = "connected"

\* ------------------------------------------------------------------- C12
\* C12: a probe that raised, and a reconnect that failed, end neither the
\* iteration nor the loop: the loop finishes the iteration and goes to
\* sleep, and after the sleep a later iteration starts with a fresh
\* snapshot of the whole connection map, so every connection that is then
\* CONNECTED gets probed.
C12_LoopSurvivesException ==
    [](pc[HL] \notin {"hl_sleep", "hl_visit", "hc_io"} =>
         <>(pc[HL] = "hl_sleep" /\
              <>(pc[HL] = "hl_visit" /\ running = HL /\ hlQueue = connections)))

\* the only connection there is had a probe that raised, was reconnected
\* by the loop, and is being probed again: a later iteration is running
C12_Witness ==
    /\ probeFails > 0 /\ opsStarted = 1 /\ Len(connections) = 1
    /\ pc[HL] = "hc_io"
    /\ status[tconn[HL]] = "connected"

\* ------------------------------------------------------------------- C13
\* C13: at the step that completes cleanup(), the health-check loop has
\* ended, every connection that was in the map is DISCONNECTED with no
\* transport handle, none of the transports built for it is still open,
\* and the connection map is empty.
C13_CleanupReleasesEverything ==
    [][\A t \in ApiTasks :
          (pc[t] = "cl_iter" /\ pc'[t] = "ag_cleanup") =>
              /\ pc'[HL] = "hl_done"
              /\ connections' = <<>>
              /\ \A i \in DOMAIN connections :
                    LET c == connections[i].conn IN
                    /\ status'[c] = "disconnected" /\ transport'[c] = 0
                    /\ \A x \in Transports :
                          towner[x] = c => tstate'[x] # "open"]_vars

\* ------------------------------------------------------------------- C14
\* C14 (as stated): after any sequence of initialize and cleanup calls there
\* is at most one task running the reaper (_periodic_cleanup) and at most
\* one health-check loop task, and once the shutdown cleanup has completed
\* neither is left running.
LiveReapers == {r \in ReaperIds : reaper[r] \in {"sleeping", "sweeping"}}
ShutdownDone == \E t \in ApiTasks : op[t].kind = "cleanup" /\ pc[t] = "done"
C14_OneReaperOneLoop ==
    /\ Cardinality(LiveReapers) <= 1
    /\ ShutdownDone => LiveReapers = {} /\ pc[HL] = "hl_done"

\* ------------------------------------------------------------------- C15
\* C15: a reader of the tool registry (get_available_tools, the tool list
\* that send_message hands to the LLM, the lookup of a tool name during a
\* turn) reads the tables as the latest completed refresh left them, whole:
\* the table from before a refresh or the one from after it, never a
\* cleared or half rebuilt one.
C15_ReadersSeeWholeTable ==
    [][\A t \in ApiTasks :
          /\ (pc[t] = "tools" /\ pc'[t] = "done") =>
                /\ seen'[t].tools = committed.tools
                /\ seen'[t].servers = committed.servers
          /\ (pc[t] = "turn" /\ pc'[t] = "llm_io") => turn'[t].sent = committed.tools
          /\ (pc[t] = "tl_next" /\ (pc'[t] # pc[t] \/ turn'[t] # turn[t])) =>
                agent_tools = committed.tools]_vars
\* a turn handed the LLM the table of before a refresh, the refresh ran
\* while the LLM call was awaited, and the turn looks its tool up in the
\* table of after the refresh
C15_Witness ==
    \E t \in ApiTasks : /\ pc[t] = "tl_next" /\ turn[t].next = 1
                        /\ turn[t].sent # agent_tools /\ agent_tools = committed.tools

\* ------------------------------------------------------------------- C16
\* C16: when a refresh installs the registry, every entry's server id names
\* a registered connection that is Connected at that moment; and when a turn
\* dispatches a registry tool whose connection has been removed since, or
\* is no longer Connected, execute_tool re-checks the connection: no
\* transport is called and the call's ToolResult is a failure.
LastResult(t) == turn[t].results[Len(turn[t].results)]
C16_RegistryOwnersConnectedAndRechecked ==
    [][\A t \in ApiTasks :
          /\ (pc[t] = "rf_visit" /\ pc'[t] # "rf_visit") =>
                \A i \in DOMAIN agent_tools' :
                    /\ Has(agent_tools'[i].server)
                    /\ status[Get(agent_tools'[i].server)] = "connected"
          /\ (pc[t] = "exec" /\ turn[t].phase = "tools" /\ Stepped(t)
                /\ (~Has(op[t].sid) \/ status[Get(op[t].sid)] # "connected")) =>
                /\ pc'[t] \in {"done", "raised"}
                /\ ttr'[t] = 0 /\ tstate' = tstate
                /\ ret'[t] = "fail_not_found" \/ exc'[t] = "RuntimeError"
          /\ (pc[t] \in {"done", "raised"} /\ turn[t].phase = "tools" /\ Stepped(t)
                /\ (ret[t] = "fail_not_found" \/ exc[t] = "RuntimeError")) =>
                /\ Len(turn'[t].results) = Len(turn[t].results) + 1
                /\ ~turn'[t].results[Len(turn'[t].results)].ok]_vars
\* a turn dispatched a tool that the registry still lists for a server
\* removed since the refresh, and recorded the failure
C16_Witness ==
    \E t \in ApiTasks :
        /\ turn[t].phase = "tools" /\ turn[t].results # <<>>
        /\ LastResult(t).error = "Server not found" /\ ~LastResult(t).ok
        /\ HasTool(LastResult(t).tool) /\ ~Has(FindTool(LastResult(t).tool).server)

\* ------------------------------------------------------------------- C17
\* C17: within one turn the LLM service is called at most twice (the first
\* request and at most one follow-up) and at most one round of tool calls
\* is run: once the follow-up reply has arrived, whatever tool calls it
\* carries, nothing more is dispatched and no further request is sent.
C17_OneToolRoundTwoLlmCalls ==
    [][\A t \in ApiTasks :
          /\ turn'[t].llm <= 2 /\ turn'[t].rounds <= 1
          /\ (pc[t] = "follow_io" /\ Stepped(t)) => pc'[t] = "turn_store"
          /\ (pc[t] = "turn_store" /\ Stepped(t)) =>
                /\ pc'[t] = "done" /\ turn'[t].phase = "end"
                /\ turn'[t].results = turn[t].results /\ tool_results' = tool_results]_vars
\* a turn whose follow-up reply carried tool calls has returned after its
\* two LLM calls and one tool round
C17_Witness ==
    \E t \in ApiTasks : /\ pc[t] = "done" /\ turn[t].phase = "end"
                        /\ turn[t].follow = "reply_calls"
                        /\ turn[t].llm = 2 /\ turn[t].rounds = 1

\* ------------------------------------------------------------------- C18
\* C18 (as stated): the tool calls of a turn are dispatched one at a time in
\* the order received (a call is started only when every earlier call has
\* its ToolResult), the result list ends with exactly one result per call,
\* result i belonging to call i, and every result is appended to the
\* conversation's tool-result ring as it is produced, in that same order.
C18_SequentialInOrderIntoRing ==
    [][\A t \in ApiTasks :
          /\ (pc[t] = "tl_next" /\ pc'[t] = "exec") =>
                Len(turn[t].results) = turn[t].next - 1
          /\ (pc[t] = "tl_next" /\ pc'[t] \in {"follow_io", "turn_store"}) =>
                /\ Len(turn[t].results) = Len(turn[t].calls)
                /\ \A i \in DOMAIN turn[t].results :
                      /\ turn[t].results[i].call = i
                      /\ turn[t].results[i].tool \in {turn[t].calls[i], "invalid"}
          /\ (turn[t].phase = "tools" /\ turn'[t].results # turn[t].results) =>
                /\ Len(turn'[t].results) = Len(turn[t].results) + 1
                /\ tool_results' =
                      Append(tool_results, turn'[t].results[Len(turn'[t].results)])]_vars

\* ------------------------------------------------------------------- C19
\* C19: no failure of a tool execution aborts the turn.  A dispatch that
\* fails (the transport raises, the connection is not Connected, the tool
\* is not in the connection's catalog, the server id is not registered, or
\* the call exceeds the timeout) adds one ToolResult with success false and
\* the error of that failure ("Tool execution timeout" for the timeout),
\* the loop goes on with the next call, and after the last call the
\* follow-up request is sent and the turn returns normally.
FailureOf(t) ==
    CASE exc[t] = "RuntimeError" -> "RuntimeError"
      [] exc[t] = "ValueError" -> "ValueError"
      [] ret[t] = "fail_not_found" -> "Server not found"
      [] ret[t] = "fail_transport" -> "transport error"
      [] OTHER -> "none"
C19_ToolFailureNeverAbortsTurn ==
    [][\A t \in ApiTasks :
          /\ (pc[t] \in {"done", "raised"} /\ turn[t].phase = "tools" /\ Stepped(t)
                /\ FailureOf(t) # "none") =>
                /\ turn'[t].results =
                      Append(turn[t].results,
                             Result(turn[t].next, turn[t].calls[turn[t].next], FALSE,
                                    FailureOf(t)))
                /\ turn'[t].next = turn[t].next + 1
                /\ pc'[t] = "tl_next" /\ exc'[t] = "none"
          /\ (pc[t] = "exec_io" /\ turn[t].phase = "tools" /\ Stepped(t)
                /\ pc'[t] # "done") =>
                /\ turn'[t].results =
                      Append(turn[t].results,
                             Result(turn[t].next, turn[t].calls[turn[t].next], FALSE,
                                    "Tool execution timeout"))
                /\ turn'[t].next = turn[t].next + 1
                /\ pc'[t] = "tl_next" /\ exc'[t] = "none"
          /\ (pc[t] = "tl_next" /\ turn[t].next > Len(turn[t].calls) /\ Stepped(t)) =>
                /\ pc'[t] = "follow_io" /\ turn'[t].llm = 2
          /\ (turn[t].phase \in {"tools", "follow"} /\ Stepped(t)) => pc'[t] # "raised"
                \/ turn'[t].phase = "tools"
          /\ (pc[t] = "turn_store" /\ Stepped(t)) => pc'[t] = "done" /\ exc'[t] = "none"]_vars
\* a turn whose first call timed out and whose second call found its
\* server not connected has sent the follow-up and returned normally
C19_Witness ==
    \E t \in ApiTasks :
        /\ pc[t] = "done" /\ turn[t].phase = "end" /\ exc[t] = "none"
        /\ Len(turn[t].results) = 2 /\ turn[t].llm = 2
        /\ turn[t].results[1].error = "Tool execution timeout"
        /\ turn[t].results[2].error = "RuntimeError"
        /\ turn[t].follow # "none"

\* ------------------------------------------------------------------- C20
\* C20 (as stated): when an LLM call made during a turn fails (the service
\* raises, or the backend chat request fails), the failure is raised to the
\* caller of send_message instead of becoming a normal reply, and no
\* assistant message is stored for that turn.
C20_LlmFailureRaisesToCaller ==
    [][\A t \in ApiTasks :
          /\ (pc[t] = "llm_io" /\ Stepped(t) /\ turn'[t].reply \in {"raise", "apology"}) =>
                pc'[t] = "raised" /\ exc'[t] # "none"
          /\ (pc[t] = "follow_io" /\ Stepped(t)
                /\ turn'[t].follow \in {"raise", "apology"}) =>
                pc'[t] = "raised" /\ exc'[t] # "none"
          /\ (pc[t] = "turn_store" /\ Stepped(t)) =>
                turn[t].reply = "reply" /\ turn[t].follow \in {"none", "reply", "reply_calls"}]_vars

\* ------------------------------------------------------------------- C21
\* C21 (as stated): a turn that completes has added to the conversation's
\* message history exactly the user message followed by the turn's final
\* assistant message: the first reply of the LLM when that reply carried no
\* tool calls, the follow-up reply when tool calls were executed.
C21_HistoryGetsFinalReply ==
    [][\A t \in ApiTasks :
          (pc[t] = "turn_store" /\ pc'[t] = "done") =>
             messages' = messages \o
                <<[role |-> "user", content |-> UserMessage],
                  [role |-> "assistant",
                   content |-> IF turn[t].calls = <<>> THEN FirstReply(t)
                               ELSE FollowupReply(t)]>>]_vars

\* C22: delete_conversation on a stored conversation always removes it from
\* active_conversations, also when closing its LLM session fails; the call
\* returns to its caller (nothing is raised) and the id no longer resolves.
C22_DeleteAlwaysRemoves ==
    [][\A t \in ApiTasks :
          (pc[t] = "delete" /\ pc'[t] # "delete" /\ op[t].sid \in active_conversations) =>
             /\ pc'[t] = "done"
             /\ op[t].sid \notin active_conversations']_vars

\* C23: create_conversation, delete_conversation and the reaper's deletions
\* are serialized by one store-wide lock: every structural mutation of the
\* conversation map is made by the task that holds _conversation_lock, so no
\* two of them are in progress at the same time.
C23_StoreMutationsUnderLock ==
    [][<<active_conversations, bound>>' # <<active_conversations, bound>> =>
          (conv_lock # 0 /\ conv_lock = running)]_vars

\* C27: a pass of the reaper removes every conversation whose age exceeds
\* the maximum and no conversation within it; when closing the LLM session
\* of one expired conversation fails, the other expired conversations are
\* removed in the same pass all the same.
C27_SweepRemovesExactlyExpired ==
    [][\A r \in ReaperIds :
          (reaper[r] = "sweeping" /\ reaper'[r] = "sleeping") =>
             active_conversations' = {c \in active_conversations : c \notin convOld}]_vars

\* a pass found two expired conversations, the close of one failed, and
\* both are gone
C27_Witness ==
    /\ lastSweep.ran
    /\ Cardinality(lastSweep.old) >= 2
    /\ lastSweep.failed # {}
    /\ lastSweep.failed # lastSweep.old
    /\ active_conversations \cap lastSweep.old = {}

\* C24: a system-role message is never removed from the history of a
\* conversation: neither by add_message at capacity (which would evict the
\* oldest message that is not a system message) nor by the reaper's trim.
C24_SystemMessagesNeverRemoved ==
    [][(Conv \in active_conversations /\ Conv \in active_conversations') =>
          \A i \in 1..Len(messages) :
             messages[i].role = "system" =>
                \E j \in 1..Len(messages') : messages'[j] = messages[i]]_vars

\* C25: after every pass of the reaper the surviving conversation holds at
\* most MAX_MESSAGES_PER_CONVERSATION messages.
C25_AtMostCapAfterSweep ==
    [][\A r \in ReaperIds :
          (reaper[r] = "sweeping" /\ reaper'[r] = "sleeping"
              /\ Conv \in active_conversations') =>
             Len(messages') <= MaxMessages]_vars

\* a pass has run over the conversation, which was given more messages than
\* the cap and holds exactly the cap
C25_Witness ==
    /\ lastSweep.ran /\ Conv \in active_conversations
    /\ Len(added) > MaxMessages
    /\ Len(messages) = MaxMessages

\* the last n entries of a sequence
LastN(ms, n) == IF Len(ms) <= n THEN ms ELSE SubSeq(ms, Len(ms) - n + 1, Len(ms))

\* C26: a pass of the reaper over a conversation within its age that was
\* given more messages than the cap leaves it holding every system message it
\* was given, in order, followed by the last MAX_MESSAGES_PER_CONVERSATION
\* messages it was given, without deduplication.
C26_TrimKeepsSystemPlusLastCap ==
    [][\A r \in ReaperIds :
          (reaper[r] = "sweeping" /\ reaper'[r] = "sleeping"
              /\ Conv \in active_conversations' /\ Len(added) > MaxMessages) =>
             messages' = OfRole(added, "system") \o LastN(added, MaxMessages)]_vars

\* the call_tool of task t is in flight on a connection that a disconnect()
\* is tearing down, or has torn down since the call was issued
Racing(t) ==
    /\ tconn[t] # 0
    /\ \/ \E u \in ApiTasks : u # t /\ pc[u] = "disc_io" /\ tconn[u] = tconn[t]
       \/ status[tconn[t]] = "disconnected"

\* remove_server has returned: the connection it disconnected is
\* DISCONNECTED, without transport, its lock free
DisconnectedClean ==
    \A u \in ApiTasks :
       (op[u].kind = "remove" /\ pc[u] = "done" /\ tconn[u] # 0) =>
          /\ status[tconn[u]] = "disconnected"
          /\ transport[tconn[u]] = 0
          /\ lock[tconn[u]] = 0

\* C28 as stated: a tool call that races a disconnect() of its connection
\* always ends with a failure result, never with an exception, and the
\* connection ends DISCONNECTED with no transport.
C28_RaceAlwaysFails ==
    /\ []DisconnectedClean
    /\ [][\A t \in ApiTasks :
             (pc[t] = "exec_io" /\ pc'[t] # "exec_io" /\ Racing(t)) =>
                (exc'[t] = "none" /\ ret'[t] # "ok")]_vars

\* C28, amended: a tool call that races a disconnect() of its connection
\* ends with a result for its issuer and never with an exception: a failure
\* record (transport error, or the timeout's), or a success when call_tool
\* answered before the teardown had closed the transport; the call changes
\* no state of the connection, which ends DISCONNECTED with no transport.
C28_RaceEndsInResult ==
    /\ []DisconnectedClean
    /\ [][\A t \in ApiTasks :
             (pc[t] = "exec_io" /\ pc'[t] # "exec_io" /\ Racing(t)) =>
                /\ exc'[t] = "none"
                /\ pc'[t] \in {"done", "tl_next"}
                /\ pc'[t] = "done" => ret'[t] \in {"ok", "fail_transport"}
                /\ ret'[t] = "ok" => tstate[ttr[t]] = "open"
                /\ pc'[t] = "tl_next" =>
                      ~turn'[t].results[Len(turn'[t].results)].ok
                /\ connVars' = connVars]_vars

\* a tool call of a turn has ended with a transport error after the
\* remove_server that raced it has disconnected the connection, dropped it
\* from the map and returned
C28_Witness ==
    \E t \in ApiTasks :
       /\ turn[t].phase = "tools" /\ pc[t] = "done" /\ tconn[t] # 0
       /\ ret[t] = "fail_transport"
       /\ ~Has(op[t].sid)
       /\ \A u \in ApiTasks : u # t => pc[u] = "idle"
       /\ status[tconn[t]] = "disconnected" /\ transport[tconn[t]] = 0

\* C29: every tool schema handed to the LLM has a `properties` key and a
\* `required` key, whatever schema the tool was declared with, an empty or
\* absent one included.
C29_HandedSchemaHasPropertiesAndRequired ==
    schemaStage = "handed" => {"properties", "required"} \subseteq toolSchema.keys

\* C30: in an iteration the health-check loop probes only connections that
\* are enabled and CONNECTED when it visits them, one at a time; when a
\* probe fails the loop awaits connect() on that same connection before it
\* visits the next one; a connection that was disabled or not CONNECTED when
\* visited is neither probed nor reconnected by the loop.
C30_LoopProbesEnabledConnected ==
    [][/\ (pc[HL] = "hl_visit" /\ pc'[HL] = "hc_io") =>
             /\ hlQueue # <<>>
             /\ tconn'[HL] = Head(hlQueue).conn
             /\ config[tconn'[HL]].enabled
             /\ status[tconn'[HL]] = "connected"
       /\ (tconn'[HL] # tconn[HL] /\ tconn'[HL] # 0) =>
             (pc[HL] = "hl_visit" /\ pc'[HL] = "hc_io")
       /\ (pc[HL] = "hc_io" /\ Stepped(HL) /\ pc'[HL] # "hl_done") =>
             \/ pc'[HL] = "hl_visit" /\ hlQueue' = Tail(hlQueue)
                   /\ status' = status
             \/ pc'[HL] = "conn_acq" /\ hlQueue' = hlQueue
                   /\ tconn'[HL] = tconn[HL]
       /\ (pc[HL] \notin {"hl_sleep", "hl_visit", "hc_io", "hl_done"} /\ Stepped(HL)) =>
             /\ tconn'[HL] = tconn[HL]
             /\ \/ hlQueue' = hlQueue /\ pc'[HL] # "hl_visit"
                \/ hlQueue' = Tail(hlQueue) /\ pc'[HL] = "hl_visit"
                \/ pc'[HL] = "hl_done"
       /\ \A c \in Conns :
             (\E x \in Transports : towner[x] # c /\ towner'[x] = c /\ running = HL) =>
                (c = tconn[HL] /\ config[c].enabled)]_vars

\* the probe of the first of two connections has failed and the loop is in
\* connect() on it, the second one, enabled and CONNECTED, still to visit
C30_Witness ==
    /\ pc[HL] \notin {"hl_sleep", "hl_visit", "hc_io", "hl_done"}
    /\ Len(hlQueue) = 2
    /\ tconn[HL] = hlQueue[1].conn
    /\ status[hlQueue[2].conn] = "connected" /\ config[hlQueue[2].conn].enabled

\* the positions of a task inside connect(), and inside the probe
ConnectPcs == {"conn_acq", "conn_lockwait", "conn_body", "conn_build", "conn_io",
               "conn_list", "conn_ok", "conn_except"}

\* C31: a connect() that fails, and a health check that fails, leave the
\* status, last error, transport handle and catalog of every other
\* connection as they are, and the key set of the connection map too: no
\* step of a connect() or of a probe writes anything but its own connection.
C31_FailureTouchesOwnConnectionOnly ==
    [][\A t \in Tasks :
          (Stepped(t) /\ pc[t] \in ConnectPcs \cup {"hc_io"}) =>
             /\ \A c \in Conns \ {tconn[t]} :
                   /\ status'[c] = status[c]
                   /\ last_error'[c] = last_error[c]
                   /\ transport'[c] = transport[c]
                   /\ available_tools'[c] = available_tools[c]
             /\ Ids(connections') = Ids(connections)]_vars

\* the probe of one connection has just failed while another connection of
\* the map is CONNECTED with its catalog
C31_Witness ==
    /\ pc[HL] = "conn_acq" /\ status[tconn[HL]] = "error"
    /\ last_error[tconn[HL]] = "probe_error"
    /\ \E i \in DOMAIN connections :
          /\ connections[i].conn # tconn[HL]
          /\ status[connections[i].conn] = "connected"
          /\ available_tools[connections[i].conn] = {"t1"}

\* C32: a tool call that is malformed (no record, a missing or non-string
\* tool name, arguments that are no map) or whose name the tool registry
\* does not resolve produces a failed ToolResult locally (tool `invalid` for
\* a malformed call, error "Tool not found" for an unresolved name) and is
\* never dispatched to the connection registry.
Malformed(call) == ~call.record \/ BadName(call) \/ ArgumentsOf(call) # "map"
Unresolved(call) == ~Malformed(call) /\ ~HasTool(call.name)
C33_OverlappingRemovesNeverRaise ==
    \A t \in ApiTasks : op[t].kind \in {"add", "remove"} => pc[t] # "raised"

\* C34: in every quiescent state (no call in progress, the health loop
\* asleep) every connection that is Connected or holds an open transport is
\* the registry's current entry for its server id: a connection that was
\* removed or replaced is never connected afterwards.
Quiescent ==
    /\ running = 0
    /\ \A t \in ApiTasks : pc[t] = "idle"
    /\ pc[HL] = "hl_sleep"
Registered(c) == \E i \in DOMAIN connections : connections[i].conn = c
HoldsOpenTransport(c) == transport[c] # 0 /\ tstate[transport[c]] = "open"
C34_OnlyRegisteredConnectionsAreLive ==
    Quiescent =>
       \A c \in Allocated :
          (status[c] = "connected" \/ HoldsOpenTransport(c)) => Registered(c)

\* C35: whenever connect() assigns a new transport to a connection, the
\* transport the connection held before (if any) has been torn down: no
\* open transport is overwritten.
C35_NoOpenTransportOverwritten ==
    [][\A c \in Conns :
          (transport'[c] # 0 /\ transport'[c] # transport[c] /\ transport[c] # 0)
             => tstate[transport[c]] # "open"]_vars

\* C36: in every reachable state a connection whose status is Disconnected
\* or Error has an empty tool catalog (its reported tool count is 0).
C36_DownConnectionHasNoTools ==
    \A c \in Allocated :
       status[c] \in {"disconnected", "error"} => available_tools[c] = {}

\* C37: Connecting is a transient status: whenever no connect() call is in
\* progress on a connection, its status is not Connecting (also when the
\* task that ran connect() was cancelled in the middle of it).
InConnect(c) ==
    \E t \in Tasks : tconn[t] = c /\ pc[t] \in ConnectPcs \ {"conn_acq", "conn_lockwait"}
C37_ConnectingOnlyDuringConnect ==
    \A c \in Allocated : status[c] = "connecting" => InConnect(c)

\* C38: the health loop never attempts connect() on a connection in Error
\* status that it is not already probing or reconnecting: once its immediate
\* reconnect after a failed probe has failed, the connection stays in Error
\* until a step of an add_server, reconnect_server or remove_server call on
\* it changes the status.
LoopBusyWith(c) == tconn[HL] = c /\ pc[HL] \in ConnectPcs \cup {"hc_io"}
C38_LoopLeavesErrorConnectionsAlone ==
    [][\A c \in Allocated :
          (status[c] = "error" /\ ~LoopBusyWith(c)) =>
             /\ ~(tconn'[HL] = c /\ pc'[HL] \in ConnectPcs \cup {"hc_io"})
             /\ status'[c] # "error" =>
                   \E t \in ApiTasks :
                      /\ Stepped(t) /\ tconn[t] = c
                      /\ op[t].kind \in {"add", "reconnect", "remove"}]_vars
\* the loop's reconnect of the only connection has failed, and in a later
\* pass the loop comes to that connection again
C38_Witness ==
    /\ opsStarted = 1 /\ probeFails = 1
    /\ pc[HL] = "hl_visit" /\ hlQueue # <<>> /\ tconn[HL] = 0
    /\ LET c == Head(hlQueue).conn IN
          /\ status[c] = "error" /\ config[c].enabled
          /\ last_error[c] # "probe_error"

\* C39: no LLM session is leaked: every open LLM-side session is the bound
\* session of exactly one stored conversation, and every stored conversation
\* is bound to an open LLM-side session.
C39_SessionsMatchConversations ==
    /\ \A s \in sessions :
          Cardinality({c \in active_conversations : bound[c] = s}) = 1
    /\ \A c \in active_conversations : bound[c] \in sessions

\* C40: for any number of turns on one conversation, turns in progress
\* together included, the stored history alternates user, assistant: every
\* stored user message is immediately followed by an assistant message and
\* no two neighbours have the same role; a step of a turn that changes the
\* history is the turn's successful end and appends the user message and
\* the assistant message of that turn, so a turn that fails stores neither.
Alternates(ms) ==
    \A i \in DOMAIN ms :
       /\ ms[i].role = "user" => (i < Len(ms) /\ ms[i + 1].role = "assistant")
       /\ ms[i].role = "assistant" => (i = 1 \/ ms[i - 1].role = "user")
C40_HistoryAlternates ==
    /\ [](Alternates(messages) /\ Alternates(added))
    /\ [][\A t \in ApiTasks :
             (op[t].kind = "turn" /\ Stepped(t)) =>
                /\ pc'[t] = "raised" => (messages' = messages /\ added' = added)
                /\ messages' # messages =>
                      /\ pc'[t] = "done"
                      /\ added' = added \o
                            <<[role |-> "user", content |-> UserMessage],
                              [role |-> "assistant", content |-> FirstReply(t)]>>
                      /\ messages' = LastN(added', MaxMessages)]_vars
\* a turn has stored its two messages while another turn is awaiting the LLM
C40_Witness ==
    \E t, u \in ApiTasks :
       /\ t # u /\ op[t].kind = "turn" /\ pc[t] = "done" /\ running = t
       /\ op[u].kind = "turn" /\ pc[u] \in {"llm_io", "follow_io"}
       /\ Len(added) = 2 /\ messages = added

====
